---- MODULE Spec2Model ----
(***************************************************************************)
(* A model of subsystems of OS-NVR:                                        *)
(*   - the child-process supervisor  (pkg/ffmpeg: process.Start / Stop),   *)
(*   - the log bus                   (pkg/log: Logger, Event.Msg),         *)
(*   - the process root              (nvr.Run),                            *)
(*   - the motion detector           (addons/motion),                      *)
(*   - the keyframe wait             (pkg/ffmpeg: WaitForKeyframe),        *)
(*   - the MinIO recording hook      (addons/minio),                       *)
(*   - application startup, routes   (nvr.go: newApp),                     *)
(*   - monitor start, motion addon   (addons/motion: onMonitorStart),      *)
(*   - RTSP headers and requests     (gortsplib/pkg/base),                 *)
(*   - ADTS decoding                 (gortsplib/pkg/aac: DecodeADTS),      *)
(*   - polygon masks                 (pkg/ffmpeg: CreateMask),             *)
(*   - detector output parser        (addons/motion: parseLine),           *)
(*   - delivery of triggers          (addons/motion: sendTrigger),         *)
(*   - subscriber channels           (pkg/log: Subscribe, unSubscribe),    *)
(*   - the shared MinIO client       (addons/minio: MinioClient),          *)
(*   - indexing of the zone list     (addons/motion: parseFFmpegOutput).   *)
(* Each subsystem has its own variables, initial predicate, next-state     *)
(* relation and specification; a property is checked under the            *)
(* specification of the subsystem it is about.                             *)
(***************************************************************************)
EXTENDS Integers, Sequences, FiniteSets, TLC

VARIABLES
    \* ---- child-process supervisor (ffmpeg.go) ----
    pcStart,      \* position of process.Start
    startRet,     \* value returned by process.Start
    waitErr,      \* err returned by p.cmd.Wait()
    done,         \* p.done: "nil", "open" or "closed"
    ctxDone,      \* ctx passed to Start is cancelled
    pcWatch,      \* position of the goroutine started at ffmpeg.go:123
    pcStop,       \* position of each caller of process.Stop
    stopCalls,    \* number of Stop calls each caller has begun
    stopLog,      \* what the caller's current Stop call has done so far
    procState,    \* the operating-system subprocess
    exitCause,    \* how the subprocess ended
    intPending,   \* an interrupt signal was delivered and not yet handled
    killPending,  \* a kill signal was delivered and not yet effective
    \* ---- log bus (package log) ----
    dispPc,       \* position of Logger.Start
    logCtxDone,   \* ctx passed to Logger.Start is cancelled
    subs,         \* the subs map of Logger.Start
    dispMsg,      \* msg, the record Logger.Start is delivering or delivered last
    dispTodo,     \* subscribers the range loop has not yet reached
    dispCur,      \* subscriber the range loop is sending to
    pcProd,       \* position of each producer
    sent,         \* number of Msg calls of each producer that have returned
    pcSub,        \* position of each subscriber
    earlier,      \* earlier[p]: subscribers whose Subscribe call had not begun
                  \* when p called Msg for the record it is emitting
    subsAt,       \* the subs map when the dispatcher received dispMsg
    dispEarlier,  \* earlier[p] of the producer of dispMsg
    got,          \* got[s]: times dispMsg was sent on the channel of s
    drained,      \* subscribers whose copy of dispMsg was read by unSubscribe
    \* ---- process root (nvr.go) ----
    pcRun,        \* position of Run
    runErr,       \* the variable err of Run
    runRet,       \* value returned by Run
    attempts,     \* attempts retry.Do has made
    via,          \* case the select of nvr.go:163 took
    fatalCh,      \* the channel fatal (capacity 1)
    stopCh,       \* the channel stop (capacity 1)
    pcApp,        \* position of the goroutine running app.run
    appCtxDone,   \* ctx of Run is cancelled
    monitorsStarted,  \* StartMonitors was called
    monitorsStopped,  \* StopMonitors has returned
    wgWaited,     \* wg.Wait has returned
    serverShutdown,   \* app.server.Shutdown was called
    shutdownRes,  \* what app.server.Shutdown returned
    fatalSeen,    \* app.run has returned an error other than ErrServerClosed
    \* ---- motion detector loop (addons/motion/backend.go) ----
    pcMon,        \* position of the monitor that owns the detector
    monCtxDone,   \* m.Ctx is cancelled
    wgCount,      \* counter of m.WG
    otherRunning, \* another goroutine of the monitor, counted in m.WG, runs
    pcDet,        \* position of the goroutine running startDetector
    detProc,      \* the detector subprocess: "none", "running" or "exited"
    detRes,       \* what process.Start returns for the subprocess
    starts,       \* detector subprocesses launched so far (saturating)
    lastEnd,      \* how the last detectorProcess call ended
    sleptSince,   \* a back-off sleep was completed since lastEnd was set
    detDone,      \* number of WG.Done calls of startDetector
    sleepAfterCancel,  \* a back-off sleep began after m.Ctx was cancelled
    detAtWait,    \* pcDet when the Wait of the monitor's stop returned
    \* ---- motion detector zones and triggers (addons/motion/backend.go) ----
    zones,        \* a.zones: the configured zones, disabled ones included
    motionDuration,  \* a.duration
    masks,        \* the mask list generateMasks returned
    zNow,         \* the clock
    lastOut,      \* filter output that printed the last score (-1: none yet)
    lastId,       \* id parsed for it
    lastScore,    \* score parsed for it
    lastEmitted,  \* sendTrigger was called for it
    lastTime,     \* the clock when it was parsed
    lastEvent,    \* the monitor.Event sent on a.m.Trigger for it
    \* ---- WaitForKeyframe (ffmpeg.go) ----
    playlist,     \* durations, in microseconds, of the segments of the playlist
    pcKf,         \* position of WaitForKeyframe
    nSegments,    \* its argument nSegments
    kfElapsed,    \* seconds since the select was entered
    kfCase,       \* case the select took
    kfRet,        \* what WaitForKeyframe returned
    kfAdded,      \* a segment was added to the playlist since the call began
    kfRead,       \* the playlist as getSegmentDuration read it
    \* ---- MinIO recording-saved hook (addons/minio/backend.go) ----
    pcHook,       \* position of onRecSaved
    hookCalls,    \* recordings saved so far
    minioClient,  \* the global MinioClient: "nil" or "client"
    mp4Exists,    \* the file recPath + ".mp4" exists
    hookFailed,   \* the failures that occurred in the current call
    hookLogged,   \* the failures the current call has logged with logf
    uploaded,     \* number of recordings stored in the bucket
    \* ---- application startup and routes (nvr.go: newApp) ----
    appPc,        \* the application is "down" or "up"
    envConfigDir, \* configDir of env.yaml, "" when absent
    disk,         \* monitor config files (ids) in each directory
    managerConfigs, \* configs held by the monitor manager
    filesBefore,  \* files of the monitor config directory before the last start
    loadedAtStart, \* configs the manager loaded at the last start
    lastRequest,  \* the last /api request and whether its handler ran
    \* ---- monitor start with the motion addon (motion/backend.go) ----
    msPc,         \* position of the monitor start
    msMotion,     \* Config["motionDetection"] = "true"
    msErr,        \* the step of onMonitorStart that failed, or "nil"
    msLogged,     \* failures logged by the start hook
    msPipe,       \* main.fifo exists
    msDetector,   \* the detector goroutine was started
    msMainArgs,   \* arguments of the main encoder: "none", "plain", "fifo"
    msStarts,     \* number of starts so far
    \* ---- RTSP header write and read (gortsplib/pkg/base/header.go) ----
    hdrPc,        \* "idle", "made", "written", "reading" or "read"
    hdrIn,        \* the header map written
    hdrBuf,       \* the bytes Header.write produced
    hdrOut,       \* the state of Header.read on hdrBuf
    \* ---- RTSP request reading (gortsplib/pkg/base/request.go) ----
    rifPc,        \* position of ReadIgnoreFrames: "idle", "loop", "returned"
    rifIn,        \* the bytes on the connection
    rifFrames,    \* payloads of the frames sent before the request
    rifSent,      \* the request sent
    rifPos,       \* position of the reader in rifIn
    rifPayloadLen, \* len(f.Payload)
    rifLensAtRead, \* the values of len(f.Payload) at the reads made
    rifSkipped,   \* frames read so far
    rifReq,       \* the request read
    rifErr,       \* the error returned
    \* ---- ADTS decoding (gortsplib/pkg/aac/adts.go) ----
    adtsPc,       \* "idle", "input" or "decoded"
    adtsPrefix,   \* number of valid frames before the last frame
    adtsLast,     \* the fields of the last frame of the stream
    adtsIn,       \* the bytes of the stream
    adtsRet,      \* what DecodeADTS returned
    adtsPkts,     \* the packets given to EncodeADTS
    \* ---- polygon masks (ffmpeg.go: CreateMask) ----
    maskPc,       \* "idle", "called" or "created"
    maskW,        \* width of the mask
    maskH,        \* height of the mask
    maskPoly,     \* the polygon, in pixels
    maskImg,      \* alpha of each pixel of the image created
    maskSet,      \* the pixels the loops of CreateMask set
    \* ---- detector output parser (motion/backend.go: parseLine) ----
    psSegment,    \* *p.segment, as a sequence of lines
    psLines,      \* the lines given to parseLine so far
    psRets,       \* what parseLine returned for each of them
    \* ---- delivery of triggers (motion/backend.go: sendTrigger) ----
    trigStarted,  \* detector processes started so far
    trigRunning,  \* the last detector process started is running
    trigParser,   \* position of the parser goroutine of each detector
    trigPending,  \* the trigger each parser is sending, 0 for none
    trigParsed,   \* the triggers, in the order of parsing
    trigReceived, \* the triggers, in the order the recorder received them
    trigLoop,     \* the loop of startDetector: "running" or "done"
    \* ---- subscriber channels of the log bus (header.go) ----
    busPc,          \* the dispatcher: "select", "range", "send", "panicked"
    busSubs,        \* subs of Logger.Start
    busTodo,        \* channels the range loop has yet to send to
    busCur,         \* channel the dispatcher is sending on, or 0
    busEmits,       \* records received from l.feed
    busSubPc,       \* each subscription: "new", "subscribing", "subscribed"
    busCancelPc,    \* each call of a cancel function: "idle", "unsub", "returned"
    busCloseCalls,  \* close(ch) executed for each subscriber channel
    busSentClosed,  \* channels sent on after their close
    \* ---- the shared MinIO client (minio/backend.go) ----
    connPc,       \* position of each invocation of onRecSaved
    MinioClient,  \* the package variable MinioClient
    connCount,    \* executions of ConnectMinio
    connUsed,     \* the client each invocation uploaded through
    \* ---- indexing of the zone list (motion/backend.go) ----
    idxPc,        \* the parsing goroutine: "new", "scan", "panicked"
    idxZones,     \* a.zones
    idxMasks,     \* the masks the detector was started with
    idxSegment,   \* *p.segment
    idxCount,     \* lines scanned
    idxUsed       \* the ids used to index a.zones

procVars == <<pcStart, startRet, waitErr, done, ctxDone, pcWatch, pcStop,
              stopCalls, stopLog, procState, exitCause, intPending, killPending>>

logVars == <<dispPc, logCtxDone, subs, dispMsg, dispTodo, dispCur, pcProd, sent,
             pcSub, earlier, subsAt, dispEarlier, got, drained>>

runVars == <<pcRun, runErr, runRet, attempts, via, fatalCh, stopCh, pcApp,
             appCtxDone, monitorsStarted, monitorsStopped, wgWaited,
             serverShutdown, shutdownRes, fatalSeen>>

detVars == <<pcMon, monCtxDone, wgCount, otherRunning, pcDet, detProc, detRes,
             starts, lastEnd, sleptSince, detDone, sleepAfterCancel, detAtWait>>

zoneVars == <<zones, motionDuration, masks, zNow, lastOut, lastId, lastScore,
              lastEmitted, lastTime, lastEvent>>

kfVars == <<playlist, pcKf, nSegments, kfElapsed, kfCase, kfRet, kfAdded,
            kfRead>>

hookVars ==
    <<pcHook, hookCalls, minioClient, mp4Exists, hookFailed, hookLogged,
      uploaded>>

appVars ==
    <<appPc, envConfigDir, disk, managerConfigs, filesBefore, loadedAtStart,
      lastRequest>>

msVars ==
    <<msPc, msMotion, msErr, msLogged, msPipe, msDetector, msMainArgs, msStarts>>

hdrVars ==
    <<hdrPc, hdrIn, hdrBuf, hdrOut>>

rifVars ==
    <<rifPc, rifIn, rifFrames, rifSent, rifPos, rifPayloadLen, rifLensAtRead, rifSkipped, rifReq, rifErr>>

adtsVars ==
    <<adtsPc, adtsPrefix, adtsLast, adtsIn, adtsRet, adtsPkts>>

maskVars ==
    <<maskPc, maskW, maskH, maskPoly, maskImg, maskSet>>

psVars ==
    <<psSegment, psLines, psRets>>

trigVars ==
    <<trigStarted, trigRunning, trigParser, trigPending, trigParsed, trigReceived,
      trigLoop>>

busVars ==
    <<busPc, busSubs, busTodo, busCur, busEmits, busSubPc, busCancelPc, busCloseCalls, busSentClosed>>

connVars ==
    <<connPc, MinioClient, connCount, connUsed>>

idxVars ==
    <<idxPc, idxZones, idxMasks, idxSegment, idxCount, idxUsed>>

vars ==
    <<procVars,
      logVars,
      runVars,
      detVars,
      zoneVars,
      kfVars,
      hookVars,
      appVars,
      msVars,
      hdrVars,
      rifVars,
      adtsVars,
      maskVars,
      psVars,
      trigVars,
      busVars,
      connVars,
      idxVars>>

notProcVars ==
    <<logVars,
      runVars,
      detVars,
      zoneVars,
      kfVars,
      hookVars,
      appVars,
      msVars,
      hdrVars,
      rifVars,
      adtsVars,
      maskVars,
      psVars,
      trigVars,
      busVars,
      connVars,
      idxVars>>

notLogVars ==
    <<procVars,
      runVars,
      detVars,
      zoneVars,
      kfVars,
      hookVars,
      appVars,
      msVars,
      hdrVars,
      rifVars,
      adtsVars,
      maskVars,
      psVars,
      trigVars,
      busVars,
      connVars,
      idxVars>>

notRunVars ==
    <<procVars,
      logVars,
      detVars,
      zoneVars,
      kfVars,
      hookVars,
      appVars,
      msVars,
      hdrVars,
      rifVars,
      adtsVars,
      maskVars,
      psVars,
      trigVars,
      busVars,
      connVars,
      idxVars>>

notDetVars ==
    <<procVars,
      logVars,
      runVars,
      zoneVars,
      kfVars,
      hookVars,
      appVars,
      msVars,
      hdrVars,
      rifVars,
      adtsVars,
      maskVars,
      psVars,
      trigVars,
      busVars,
      connVars,
      idxVars>>

notZoneVars ==
    <<procVars,
      logVars,
      runVars,
      detVars,
      kfVars,
      hookVars,
      appVars,
      msVars,
      hdrVars,
      rifVars,
      adtsVars,
      maskVars,
      psVars,
      trigVars,
      busVars,
      connVars,
      idxVars>>

notKfVars ==
    <<procVars,
      logVars,
      runVars,
      detVars,
      zoneVars,
      hookVars,
      appVars,
      msVars,
      hdrVars,
      rifVars,
      adtsVars,
      maskVars,
      psVars,
      trigVars,
      busVars,
      connVars,
      idxVars>>

notHookVars ==
    <<procVars,
      logVars,
      runVars,
      detVars,
      zoneVars,
      kfVars,
      appVars,
      msVars,
      hdrVars,
      rifVars,
      adtsVars,
      maskVars,
      psVars,
      trigVars,
      busVars,
      connVars,
      idxVars>>

notAppVars ==
    <<procVars,
      logVars,
      runVars,
      detVars,
      zoneVars,
      kfVars,
      hookVars,
      msVars,
      hdrVars,
      rifVars,
      adtsVars,
      maskVars,
      psVars,
      trigVars,
      busVars,
      connVars,
      idxVars>>

notMsVars ==
    <<procVars,
      logVars,
      runVars,
      detVars,
      zoneVars,
      kfVars,
      hookVars,
      appVars,
      hdrVars,
      rifVars,
      adtsVars,
      maskVars,
      psVars,
      trigVars,
      busVars,
      connVars,
      idxVars>>

notHdrVars ==
    <<procVars,
      logVars,
      runVars,
      detVars,
      zoneVars,
      kfVars,
      hookVars,
      appVars,
      msVars,
      rifVars,
      adtsVars,
      maskVars,
      psVars,
      trigVars,
      busVars,
      connVars,
      idxVars>>

notRifVars ==
    <<procVars,
      logVars,
      runVars,
      detVars,
      zoneVars,
      kfVars,
      hookVars,
      appVars,
      msVars,
      hdrVars,
      adtsVars,
      maskVars,
      psVars,
      trigVars,
      busVars,
      connVars,
      idxVars>>

notAdtsVars ==
    <<procVars,
      logVars,
      runVars,
      detVars,
      zoneVars,
      kfVars,
      hookVars,
      appVars,
      msVars,
      hdrVars,
      rifVars,
      maskVars,
      psVars,
      trigVars,
      busVars,
      connVars,
      idxVars>>

notMaskVars ==
    <<procVars,
      logVars,
      runVars,
      detVars,
      zoneVars,
      kfVars,
      hookVars,
      appVars,
      msVars,
      hdrVars,
      rifVars,
      adtsVars,
      psVars,
      trigVars,
      busVars,
      connVars,
      idxVars>>

notPsVars ==
    <<procVars,
      logVars,
      runVars,
      detVars,
      zoneVars,
      kfVars,
      hookVars,
      appVars,
      msVars,
      hdrVars,
      rifVars,
      adtsVars,
      maskVars,
      trigVars,
      busVars,
      connVars,
      idxVars>>

notTrigVars ==
    <<procVars,
      logVars,
      runVars,
      detVars,
      zoneVars,
      kfVars,
      hookVars,
      appVars,
      msVars,
      hdrVars,
      rifVars,
      adtsVars,
      maskVars,
      psVars,
      busVars,
      connVars,
      idxVars>>

notBusVars ==
    <<procVars,
      logVars,
      runVars,
      detVars,
      zoneVars,
      kfVars,
      hookVars,
      appVars,
      msVars,
      hdrVars,
      rifVars,
      adtsVars,
      maskVars,
      psVars,
      trigVars,
      connVars,
      idxVars>>

notConnVars ==
    <<procVars,
      logVars,
      runVars,
      detVars,
      zoneVars,
      kfVars,
      hookVars,
      appVars,
      msVars,
      hdrVars,
      rifVars,
      adtsVars,
      maskVars,
      psVars,
      trigVars,
      busVars,
      idxVars>>

notIdxVars ==
    <<procVars,
      logVars,
      runVars,
      detVars,
      zoneVars,
      kfVars,
      hookVars,
      appVars,
      msVars,
      hdrVars,
      rifVars,
      adtsVars,
      maskVars,
      psVars,
      trigVars,
      busVars,
      connVars>>

----------------------------------------------------------------------------
(***************************************************************************)
(* Child-process supervisor: src/pkg/ffmpeg/ffmpeg.go                      *)
(***************************************************************************)

\* Number of goroutines that call Stop explicitly (besides the goroutine
\* Start spawns, which calls Stop when ctx is cancelled).
NumExtStoppers == 1
\* Number of Stop calls each explicit caller makes, one after the other.
MaxStopCalls == 2

\* Caller 0 is the goroutine of ffmpeg.go:123-129.
CtxStopper == 0
ExtStoppers == 1..NumExtStoppers
Stoppers == {CtxStopper} \cup ExtStoppers

\* Exit statuses the subprocess may end with.
ExitCodes == {0, 1, 255}

Nil == "<nil>"

NoCause == [kind |-> "none", code |-> 0, sig |-> ""]
Exited(code) == [kind |-> "status", code |-> code, sig |-> ""]
Signaled(sig) == [kind |-> "signal", code |-> 0, sig |-> sig]

\* os.ProcessState.String, as carried by the *exec.ExitError of cmd.Wait.
WaitError(cause) ==
    IF cause.kind = "status"
    THEN IF cause.code = 0 THEN Nil ELSE "exit status " \o ToString(cause.code)
    ELSE "signal: " \o cause.sig

\* ffmpeg.go:134-139
StartResultNo255(err) == err
StartResult(err) ==
    IF err # Nil /\ err = "exit status 255" THEN Nil ELSE err

EmptyLog == [int |-> FALSE, timeout |-> FALSE, kill |-> FALSE,
             exitedAtTimeout |-> FALSE, doneAtTimeout |-> "nil",
             doneAtCall |-> "nil"]

ProcInit ==
    /\ pcStart = "init"
    /\ startRet = Nil
    /\ waitErr = Nil
    /\ done = "nil"
    /\ ctxDone = FALSE
    /\ pcWatch = "none"
    /\ pcStop = [c \in Stoppers |-> "idle"]
    /\ stopCalls = [c \in Stoppers |-> 0]
    /\ stopLog = [c \in Stoppers |-> EmptyLog]
    /\ procState = "none"
    /\ exitCause = NoCause
    /\ intPending = FALSE
    /\ killPending = FALSE

\* ffmpeg.go:105-119: attachLogger or cmd.Start fails and Start returns the error.
Start_Fail ==
    /\ pcStart = "init"
    /\ \E e \in {"pipe error", "exec error"} : startRet' = e
    /\ pcStart' = "returned"
    /\ UNCHANGED notProcVars
    /\ UNCHANGED <<waitErr, done, ctxDone, pcWatch, pcStop, stopCalls, stopLog,
                   procState, exitCause, intPending, killPending>>

\* ffmpeg.go:117-129: cmd.Start succeeds, p.done is made, the goroutine is spawned.
Start_Launch ==
    /\ pcStart = "init"
    /\ procState' = "running"
    /\ done' = "open"
    /\ pcWatch' = "select"
    /\ pcStart' = "wait"
    /\ UNCHANGED notProcVars
    /\ UNCHANGED <<startRet, waitErr, ctxDone, pcStop, stopCalls, stopLog,
                   exitCause, intPending, killPending>>

\* ffmpeg.go:131: cmd.Wait returns once the subprocess has exited.
Start_WaitEarly ==
    /\ pcStart = "wait"
    /\ ctxDone \/ procState = "exited"
    /\ waitErr' = IF procState = "exited" THEN WaitError(exitCause) ELSE "context canceled"
    /\ pcStart' = "close"
    /\ UNCHANGED notProcVars
    /\ UNCHANGED <<startRet, done, ctxDone, pcWatch, pcStop, stopCalls, stopLog,
                   procState, exitCause, intPending, killPending>>
Start_Wait ==
    /\ pcStart = "wait"
    /\ procState = "exited"
    /\ waitErr' = WaitError(exitCause)
    /\ pcStart' = "close"
    /\ UNCHANGED notProcVars
    /\ UNCHANGED <<startRet, done, ctxDone, pcWatch, pcStop, stopCalls, stopLog,
                   procState, exitCause, intPending, killPending>>

\* ffmpeg.go:132: close(p.done)
Start_Close ==
    /\ pcStart = "close"
    /\ done' = "closed"
    /\ pcStart' = "map"
    /\ UNCHANGED notProcVars
    /\ UNCHANGED <<startRet, waitErr, ctxDone, pcWatch, pcStop, stopCalls, stopLog,
                   procState, exitCause, intPending, killPending>>

\* ffmpeg.go:134-139
Start_Return ==
    /\ pcStart = "map"
    /\ startRet' = StartResult(waitErr)
    /\ pcStart' = "returned"
    /\ UNCHANGED notProcVars
    /\ UNCHANGED <<waitErr, done, ctxDone, pcWatch, pcStop, stopCalls, stopLog,
                   procState, exitCause, intPending, killPending>>

\* The caller of Start cancels ctx.
CtxCancel ==
    /\ ~ctxDone
    /\ ctxDone' = TRUE
    /\ UNCHANGED notProcVars
    /\ UNCHANGED <<pcStart, startRet, waitErr, done, pcWatch, pcStop, stopCalls,
                   stopLog, procState, exitCause, intPending, killPending>>

\* ffmpeg.go:124-125: case <-p.done
Watch_Done ==
    /\ pcWatch = "select"
    /\ done = "closed"
    /\ pcWatch' = "exit"
    /\ UNCHANGED notProcVars
    /\ UNCHANGED <<pcStart, startRet, waitErr, done, ctxDone, pcStop, stopCalls,
                   stopLog, procState, exitCause, intPending, killPending>>

\* ffmpeg.go:126-127: case <-ctx.Done(): p.Stop()
Watch_Ctx ==
    /\ pcWatch = "select"
    /\ ctxDone
    /\ pcWatch' = "stop"
    /\ pcStop' = [pcStop EXCEPT ![CtxStopper] = "interrupt"]
    /\ stopCalls' = [stopCalls EXCEPT ![CtxStopper] = 1]
    /\ stopLog' = [stopLog EXCEPT ![CtxStopper] = [EmptyLog EXCEPT !.doneAtCall = done]]
    /\ UNCHANGED notProcVars
    /\ UNCHANGED <<pcStart, startRet, waitErr, done, ctxDone, procState, exitCause,
                   intPending, killPending>>

\* ffmpeg.go:127-129: p.Stop() returned, the goroutine ends.
Watch_Exit ==
    /\ pcWatch = "stop"
    /\ pcStop[CtxStopper] = "returned"
    /\ pcWatch' = "exit"
    /\ UNCHANGED notProcVars
    /\ UNCHANGED <<pcStart, startRet, waitErr, done, ctxDone, pcStop, stopCalls,
                   stopLog, procState, exitCause, intPending, killPending>>

\* Another goroutine calls p.Stop() on a process whose Start has launched
\* the subprocess.
Stop_Call(c) ==
    /\ c \in ExtStoppers
    /\ pcStop[c] \in {"idle", "returned"}
    /\ stopCalls[c] < MaxStopCalls
    /\ done # "nil"
    /\ pcStop' = [pcStop EXCEPT ![c] = "interrupt"]
    /\ stopCalls' = [stopCalls EXCEPT ![c] = @ + 1]
    /\ stopLog' = [stopLog EXCEPT ![c] = [EmptyLog EXCEPT !.doneAtCall = done]]
    /\ UNCHANGED notProcVars
    /\ UNCHANGED <<pcStart, startRet, waitErr, done, ctxDone, pcWatch, procState,
                   exitCause, intPending, killPending>>

\* ffmpeg.go:145: p.cmd.Process.Signal(os.Interrupt); the select of line 147
\* is entered and time.After(p.timeout) starts.
Stop_Interrupt(c) ==
    /\ pcStop[c] = "interrupt"
    /\ intPending' = (intPending \/ procState = "running")
    /\ pcStop' = [pcStop EXCEPT ![c] = "select"]
    /\ stopLog' = [stopLog EXCEPT ![c].int = TRUE]
    /\ UNCHANGED notProcVars
    /\ UNCHANGED <<pcStart, startRet, waitErr, done, ctxDone, pcWatch, stopCalls,
                   procState, exitCause, killPending>>

\* ffmpeg.go:148: case <-p.done
Stop_SelectDone(c) ==
    /\ pcStop[c] = "select"
    /\ done = "closed"
    /\ pcStop' = [pcStop EXCEPT ![c] = "returned"]
    /\ UNCHANGED notProcVars
    /\ UNCHANGED <<pcStart, startRet, waitErr, done, ctxDone, pcWatch, stopCalls,
                   stopLog, procState, exitCause, intPending, killPending>>

\* ffmpeg.go:149: case <-time.After(p.timeout). The goroutine is parked in the
\* select on both channels and the first of them to become ready decides the
\* case: p.timeout elapses while p.done is still open.
Stop_TimeoutAnyway(c) ==
    /\ pcStop[c] = "select"
    /\ pcStop' = [pcStop EXCEPT ![c] = "kill"]
    /\ stopLog' = [stopLog EXCEPT ![c].timeout = TRUE,
                                  ![c].exitedAtTimeout = (procState = "exited"),
                                  ![c].doneAtTimeout = done]
    /\ UNCHANGED notProcVars
    /\ UNCHANGED <<pcStart, startRet, waitErr, done, ctxDone, pcWatch, stopCalls,
                   procState, exitCause, intPending, killPending>>
Stop_Timeout(c) ==
    /\ pcStop[c] = "select"
    /\ done # "closed"
    /\ pcStop' = [pcStop EXCEPT ![c] = "kill"]
    /\ stopLog' = [stopLog EXCEPT ![c].timeout = TRUE,
                                  ![c].exitedAtTimeout = (procState = "exited"),
                                  ![c].doneAtTimeout = done]
    /\ UNCHANGED notProcVars
    /\ UNCHANGED <<pcStart, startRet, waitErr, done, ctxDone, pcWatch, stopCalls,
                   procState, exitCause, intPending, killPending>>

\* ffmpeg.go:150: p.cmd.Process.Signal(os.Kill)
Stop_Kill(c) ==
    /\ pcStop[c] = "kill"
    /\ killPending' = (killPending \/ procState = "running")
    /\ pcStop' = [pcStop EXCEPT ![c] = "waitDone"]
    /\ stopLog' = [stopLog EXCEPT ![c].kill = TRUE]
    /\ UNCHANGED notProcVars
    /\ UNCHANGED <<pcStart, startRet, waitErr, done, ctxDone, pcWatch, stopCalls,
                   procState, exitCause, intPending>>

\* ffmpeg.go:151: <-p.done
Stop_WaitDoneNoWait(c) ==
    /\ pcStop[c] = "waitDone"
    /\ pcStop' = [pcStop EXCEPT ![c] = "returned"]
    /\ UNCHANGED notProcVars
    /\ UNCHANGED <<pcStart, startRet, waitErr, done, ctxDone, pcWatch, stopCalls,
                   stopLog, procState, exitCause, intPending, killPending>>
Stop_WaitDone(c) ==
    /\ pcStop[c] = "waitDone"
    /\ done = "closed"
    /\ pcStop' = [pcStop EXCEPT ![c] = "returned"]
    /\ UNCHANGED notProcVars
    /\ UNCHANGED <<pcStart, startRet, waitErr, done, ctxDone, pcWatch, stopCalls,
                   stopLog, procState, exitCause, intPending, killPending>>

\* The subprocess ends by itself with some exit status.
Proc_Exit ==
    /\ procState = "running"
    /\ \E code \in ExitCodes : exitCause' = Exited(code)
    /\ procState' = "exited"
    /\ UNCHANGED notProcVars
    /\ UNCHANGED <<pcStart, startRet, waitErr, done, ctxDone, pcWatch, pcStop,
                   stopCalls, stopLog, intPending, killPending>>

\* The subprocess receives the interrupt: its handler exits with a status
\* (ffmpeg: 255), or the default disposition terminates it, or it ignores it.
Proc_OnInterrupt ==
    /\ procState = "running"
    /\ intPending
    /\ intPending' = FALSE
    /\ \/ /\ \E code \in ExitCodes : exitCause' = Exited(code)
          /\ procState' = "exited"
       \/ /\ exitCause' = Signaled("interrupt")
          /\ procState' = "exited"
       \/ UNCHANGED notProcVars
    /\ UNCHANGED <<procState, exitCause>>
    /\ UNCHANGED notProcVars
    /\ UNCHANGED <<pcStart, startRet, waitErr, done, ctxDone, pcWatch, pcStop,
                   stopCalls, stopLog, killPending>>

\* The kill signal cannot be caught: the subprocess is terminated.
Proc_OnKill ==
    /\ procState = "running"
    /\ killPending
    /\ exitCause' = Signaled("killed")
    /\ procState' = "exited"
    /\ UNCHANGED notProcVars
    /\ UNCHANGED <<pcStart, startRet, waitErr, done, ctxDone, pcWatch, pcStop,
                   stopCalls, stopLog, intPending, killPending>>

ProcNext ==
    \/ Start_Fail
    \/ Start_Launch
    \/ Start_Wait
    \/ Start_Close
    \/ Start_Return
    \/ CtxCancel
    \/ Watch_Done
    \/ Watch_Ctx
    \/ Watch_Exit
    \/ \E c \in Stoppers : Stop_Call(c)
    \/ \E c \in Stoppers : Stop_Interrupt(c)
    \/ \E c \in Stoppers : Stop_SelectDone(c)
    \/ \E c \in Stoppers : Stop_Timeout(c)
    \/ \E c \in Stoppers : Stop_Kill(c)
    \/ \E c \in Stoppers : Stop_WaitDone(c)
    \/ Proc_Exit
    \/ Proc_OnInterrupt
    \/ Proc_OnKill

\* Goroutines that can take a step eventually take it, a timer that was
\* started eventually fires, and a kill signal eventually takes effect.  The
\* subprocess is not obliged to exit by itself or react to an interrupt, and
\* nobody is obliged to cancel ctx or to call Stop.
ProcFairness ==
    /\ WF_vars(Start_Launch \/ Start_Fail)
    /\ WF_vars(Start_Wait)
    /\ WF_vars(Start_Close)
    /\ WF_vars(Start_Return)
    /\ WF_vars(Watch_Done \/ Watch_Ctx)
    /\ WF_vars(Watch_Exit)
    /\ \A c \in Stoppers :
          /\ WF_vars(Stop_Interrupt(c))
          /\ WF_vars(Stop_SelectDone(c))
          /\ WF_vars(Stop_Timeout(c))
          /\ WF_vars(Stop_Kill(c))
          /\ WF_vars(Stop_WaitDone(c))
    /\ WF_vars(Proc_OnKill)


----------------------------------------------------------------------------
(***************************************************************************)
(* Properties of the child-process supervisor, checked under SpecProc.     *)
(***************************************************************************)

\* C1: if ctx is cancelled while the subprocess is running, Stop is invoked
\* by the goroutine of Start (unless the subprocess ends by itself first) and
\* Start eventually returns; Start never returns while the subprocess is
\* still running, and a Start that launched the subprocess returns only after
\* cmd.Wait returned and p.done was closed.
C1_StartReturnsAfterExit ==
    /\ [](pcStart = "returned" =>
            /\ procState # "running"
            /\ (done # "nil" => procState = "exited" /\ done = "closed"))
    /\ (ctxDone /\ pcStart = "wait" /\ procState = "running")
          ~> (stopLog[CtxStopper].int \/ procState = "exited")
    /\ (ctxDone /\ pcStart = "wait") ~> (pcStart = "returned")

\* C1 witness: ctx was cancelled, the goroutine's Stop interrupted and then
\* killed the subprocess, and Start has returned.
C1_Witness ==
    /\ pcStart = "returned"
    /\ ctxDone
    /\ stopLog[CtxStopper].int
    /\ stopLog[CtxStopper].kill
    /\ exitCause = Signaled("killed")

\* C2: every Stop call returns, however many calls there are and whether
\* they overlap or follow each other; each of them leaves what a single call
\* leaves (the subprocess has exited and p.done is closed), and a call made
\* after p.done was closed waits for no timeout and sends no kill.
C2_StopIdempotent ==
    /\ \A c \in Stoppers :
          (pcStop[c] \notin {"idle", "returned"}) ~> (pcStop[c] = "returned")
    /\ [](\A c \in Stoppers :
            pcStop[c] = "returned" => procState = "exited" /\ done = "closed")
    /\ [](\A c \in Stoppers :
            stopLog[c].doneAtCall = "closed" =>
                ~stopLog[c].timeout /\ ~stopLog[c].kill)

\* C2 witness: an explicit caller has completed two Stop calls, the second
\* begun after the subprocess was gone, while the Stop triggered by ctx has
\* completed as well.
C2_Witness ==
    /\ pcStop[CtxStopper] = "returned"
    /\ \E c \in ExtStoppers :
          /\ pcStop[c] = "returned"
          /\ stopCalls[c] >= 2
          /\ stopLog[c].doneAtCall = "closed"

C4_KillOnlyIfNotExited ==
    \A c \in Stoppers :
        stopLog[c].kill =>
            stopLog[c].int /\ stopLog[c].timeout /\ ~stopLog[c].exitedAtTimeout

\* C4 amended: a Stop call sends the kill signal only after it sent the
\* interrupt and its timeout elapsed while p.done was still open; a call
\* that finds p.done closed before its timeout elapses sends no kill.
C4_KillOnlyAfterTimeout ==
    \A c \in Stoppers :
        /\ (stopLog[c].kill \/ pcStop[c] \in {"kill", "waitDone"}) =>
              stopLog[c].int /\ stopLog[c].timeout
        /\ stopLog[c].timeout => stopLog[c].doneAtTimeout = "open"

\* C4 witness: one Stop call timed out and killed the subprocess, another
\* one sent the interrupt, saw p.done closed and returned without a kill.
C4_Witness ==
    /\ exitCause = Signaled("killed")
    /\ \E c \in Stoppers : stopLog[c].kill
    /\ \E c \in Stoppers :
          /\ pcStop[c] = "returned"
          /\ stopLog[c].int
          /\ stopLog[c].doneAtCall = "open"
          /\ ~stopLog[c].kill

----------------------------------------------------------------------------
(***************************************************************************)
(* Log bus: package log (src/pkg/video/rtsp/gortsplib/pkg/base/header.go,  *)
(* lines 126-365).  l.feed, l.sub, l.unsub and every subscriber channel    *)
(* are unbuffered: a send completes together with the matching receive.    *)
(***************************************************************************)

\* Number of records each producer emits.
MaxMsgs == 1

\* The goroutines that emit records, and the subscriptions made over the
\* life of the bus (each Subscribe call makes a new channel).
Producers == {1, 2}
Subscribers == {1, 2}
\* The record <<p, n>> is the n-th record of producer p.
NoMsg == <<0, 0>>

LogInit ==
    /\ dispPc = "new"
    /\ logCtxDone = FALSE
    /\ subs = {}
    /\ dispMsg = NoMsg
    /\ dispTodo = {}
    /\ dispCur = 0
    /\ pcProd = [p \in Producers |-> "idle"]
    /\ sent = [p \in Producers |-> 0]
    /\ pcSub = [s \in Subscribers |-> "new"]
    /\ earlier = [p \in Producers |-> {}]
    /\ subsAt = {}
    /\ dispEarlier = {}
    /\ got = [s \in Subscribers |-> 0]
    /\ drained = {}

\* The record a producer is emitting, or has to emit next.
CurRecord(p) == <<p, sent[p] + 1>>

\* header.go:241-243: go logger.Start(ctx)
Logger_Start ==
    /\ dispPc = "new"
    /\ dispPc' = "select"
    /\ UNCHANGED <<logCtxDone, subs, dispMsg, dispTodo, dispCur, pcProd, sent,
                   pcSub, earlier, subsAt, dispEarlier, got, drained>>
    /\ UNCHANGED notLogVars

\* The owner of the bus cancels ctx.
LogCtxCancel ==
    /\ ~logCtxDone
    /\ logCtxDone' = TRUE
    /\ UNCHANGED <<dispPc, subs, dispMsg, dispTodo, dispCur, pcProd, sent,
                   pcSub, earlier, subsAt, dispEarlier, got, drained>>
    /\ UNCHANGED notLogVars

\* header.go:245-246: case <-ctx.Done(): return
Start_CtxDone ==
    /\ dispPc = "select"
    /\ logCtxDone
    /\ dispPc' = "stopped"
    /\ UNCHANGED <<logCtxDone, subs, dispMsg, dispTodo, dispCur, pcProd, sent,
                   pcSub, earlier, subsAt, dispEarlier, got, drained>>
    /\ UNCHANGED notLogVars

\* header.go:329-365 and 194-203: a producer creates an Event (l.Info() etc.)
\* and calls Msg, which reaches the send on l.feed.
Msg_Call(p) ==
    /\ pcProd[p] = "idle"
    /\ sent[p] < MaxMsgs
    /\ pcProd' = [pcProd EXCEPT ![p] = "sending"]
    /\ earlier' = [earlier EXCEPT ![p] = {s \in Subscribers : pcSub[s] = "new"}]
    /\ UNCHANGED <<dispPc, logCtxDone, subs, dispMsg, dispTodo, dispCur, sent,
                   pcSub, subsAt, dispEarlier, got, drained>>
    /\ UNCHANGED notLogVars

\* header.go:203 with header.go:255: e.logger.feed <- log is received by
\* case msg := <-l.feed; Msg returns and the dispatcher enters the range loop.
Msg_HandoffSync(p) ==
    /\ dispPc = "select"
    /\ pcProd[p] = "sending"
    /\ dispMsg' = CurRecord(p)
    /\ dispTodo' = subs
    /\ dispPc' = "range"
    /\ subsAt' = subs
    /\ dispEarlier' = earlier[p]
    /\ got' = [s \in Subscribers |-> 0]
    /\ drained' = {}
    /\ UNCHANGED <<logCtxDone, subs, dispCur, pcSub, pcProd, sent, earlier>>
    /\ UNCHANGED notLogVars
Msg_Handoff(p) ==
    /\ dispPc = "select"
    /\ pcProd[p] = "sending"
    /\ pcProd' = [pcProd EXCEPT ![p] = "idle"]
    /\ sent' = [sent EXCEPT ![p] = @ + 1]
    /\ earlier' = [earlier EXCEPT ![p] = {}]
    /\ dispMsg' = CurRecord(p)
    /\ dispTodo' = subs
    /\ dispPc' = "range"
    /\ subsAt' = subs
    /\ dispEarlier' = earlier[p]
    /\ got' = [s \in Subscribers |-> 0]
    /\ drained' = {}
    /\ UNCHANGED <<logCtxDone, subs, dispCur, pcSub>>
    /\ UNCHANGED notLogVars

\* header.go:256-258: for ch := range subs picks the next channel, in an
\* order the map iteration chooses, or the loop ends.
Start_RangeTwice ==
    /\ dispPc = "range"
    /\ \/ /\ dispTodo = {}
          /\ dispPc' = "select"
          /\ UNCHANGED <<dispTodo, dispCur>>
       \/ \E s \in subs :
             /\ dispTodo # {}
             /\ dispCur' = s
             /\ dispTodo' = dispTodo \ {s}
             /\ dispPc' = "send"
    /\ UNCHANGED <<logCtxDone, subs, dispMsg, pcProd, sent, pcSub, earlier,
                   subsAt, dispEarlier, got, drained>>
    /\ UNCHANGED notLogVars
Start_Range ==
    /\ dispPc = "range"
    /\ \/ /\ dispTodo = {}
          /\ dispPc' = "select"
          /\ UNCHANGED <<dispTodo, dispCur>>
       \/ \E s \in dispTodo :
             /\ dispCur' = s
             /\ dispTodo' = dispTodo \ {s}
             /\ dispPc' = "send"
    /\ UNCHANGED <<logCtxDone, subs, dispMsg, pcProd, sent, pcSub, earlier,
                   subsAt, dispEarlier, got, drained>>
    /\ UNCHANGED notLogVars

\* header.go:267-269: Subscribe makes its channel and reaches l.sub <- feed.
Subscribe_Call(s) ==
    /\ pcSub[s] = "new"
    /\ pcSub' = [pcSub EXCEPT ![s] = "subscribing"]
    /\ UNCHANGED <<dispPc, logCtxDone, subs, dispMsg, dispTodo, dispCur, pcProd,
                   sent, earlier, subsAt, dispEarlier, got, drained>>
    /\ UNCHANGED notLogVars

\* header.go:269 with header.go:248-249: l.sub <- feed is received by
\* case ch := <-l.sub, subs[ch] is set and Subscribe returns.
Subscribe_HandoffAnytime(s) ==
    /\ dispPc \in {"select", "range", "send"}
    /\ pcSub[s] = "subscribing"
    /\ subs' = subs \cup {s}
    /\ dispTodo' = IF dispPc = "select" THEN dispTodo ELSE dispTodo \cup {s}
    /\ pcSub' = [pcSub EXCEPT ![s] = "reading"]
    /\ UNCHANGED <<dispPc, logCtxDone, dispMsg, dispCur, pcProd, sent,
                   earlier, subsAt, dispEarlier, got, drained>>
    /\ UNCHANGED notLogVars
Subscribe_Handoff(s) ==
    /\ dispPc = "select"
    /\ pcSub[s] = "subscribing"
    /\ subs' = subs \cup {s}
    /\ pcSub' = [pcSub EXCEPT ![s] = "reading"]
    /\ UNCHANGED <<dispPc, logCtxDone, dispMsg, dispTodo, dispCur, pcProd, sent,
                   earlier, subsAt, dispEarlier, got, drained>>
    /\ UNCHANGED notLogVars

\* header.go:257 with the subscriber's receive (as in header.go:294): the
\* reader of s takes the record the dispatcher is sending on its channel.
Feed_Read(s) ==
    /\ dispPc = "send"
    /\ dispCur = s
    /\ pcSub[s] = "reading"
    /\ got' = [got EXCEPT ![s] = @ + 1]
    /\ dispPc' = "range"
    /\ dispCur' = 0
    /\ UNCHANGED <<logCtxDone, subs, dispMsg, dispTodo, pcProd, sent, pcSub,
                   earlier, subsAt, dispEarlier, drained>>
    /\ UNCHANGED notLogVars

\* header.go:271-273: the subscriber calls its cancel function, which enters
\* the loop of unSubscribe.
Cancel_Call(s) ==
    /\ pcSub[s] = "reading"
    /\ pcSub' = [pcSub EXCEPT ![s] = "cancelling"]
    /\ UNCHANGED <<dispPc, logCtxDone, subs, dispMsg, dispTodo, dispCur, pcProd,
                   sent, earlier, subsAt, dispEarlier, got, drained>>
    /\ UNCHANGED notLogVars

\* header.go:281-282 with header.go:251-253: l.unsub <- feed is received by
\* case ch := <-l.unsub, which closes ch and deletes it; unSubscribe returns.
UnSubscribe_Handoff(s) ==
    /\ dispPc = "select"
    /\ pcSub[s] = "cancelling"
    /\ subs' = subs \ {s}
    /\ pcSub' = [pcSub EXCEPT ![s] = "cancelled"]
    /\ UNCHANGED <<dispPc, logCtxDone, dispMsg, dispTodo, dispCur, pcProd, sent,
                   earlier, subsAt, dispEarlier, got, drained>>
    /\ UNCHANGED notLogVars

\* header.go:283 with header.go:257: case <-feed of unSubscribe reads the
\* record the dispatcher is sending on the channel and drops it.
UnSubscribe_NoDrain(s) ==
    /\ FALSE
    /\ pcSub[s] = "cancelling"
    /\ UNCHANGED vars
UnSubscribe_Drain(s) ==
    /\ dispPc = "send"
    /\ dispCur = s
    /\ pcSub[s] = "cancelling"
    /\ got' = [got EXCEPT ![s] = @ + 1]
    /\ drained' = drained \cup {s}
    /\ dispPc' = "range"
    /\ dispCur' = 0
    /\ UNCHANGED <<logCtxDone, subs, dispMsg, dispTodo, pcProd, sent, pcSub,
                   earlier, subsAt, dispEarlier>>
    /\ UNCHANGED notLogVars

LogNext ==
    \/ Logger_Start
    \/ LogCtxCancel
    \/ Start_CtxDone
    \/ Start_Range
    \/ \E p \in Producers : Msg_Call(p)
    \/ \E p \in Producers : Msg_Handoff(p)
    \/ \E s \in Subscribers : Subscribe_Call(s)
    \/ \E s \in Subscribers : Subscribe_Handoff(s)
    \/ \E s \in Subscribers : Feed_Read(s)
    \/ \E s \in Subscribers : Cancel_Call(s)
    \/ \E s \in Subscribers : UnSubscribe_Handoff(s)
    \/ \E s \in Subscribers : UnSubscribe_Drain(s)

\* The dispatcher goroutine runs, a subscriber that has not cancelled keeps
\* reading its channel, and unSubscribe keeps running its loop.  Producers
\* need not emit, subscribers need not subscribe or cancel, and ctx need not
\* be cancelled.  Go's select chooses among ready cases at random, so a case
\* that stays ready is eventually chosen.
LogFairness ==
    /\ WF_vars(Logger_Start)
    /\ WF_vars(Start_CtxDone)
    /\ WF_vars(Start_Range)
    /\ \A p \in Producers : WF_vars(Msg_Handoff(p))
    /\ \A s \in Subscribers :
          /\ WF_vars(Subscribe_Handoff(s))
          /\ WF_vars(Feed_Read(s))
          /\ WF_vars(UnSubscribe_Handoff(s))
          /\ WF_vars(UnSubscribe_Drain(s))

----------------------------------------------------------------------------
(***************************************************************************)
(* Properties of the log bus, checked under SpecLog.                       *)
(***************************************************************************)

Delivering == dispPc \in {"range", "send"}

\* C5: a record the dispatcher receives while a subscriber is registered
\* (its Subscribe has returned, its unsubscribe request was not yet
\* accepted) is sent on that subscriber's channel exactly once: never twice,
\* and once the range loop is over, once to every subscriber registered at
\* the handoff; the loop always comes to its end; and the copy goes to the
\* subscriber's reader unless the subscriber has called cancel meanwhile.
C5_DeliveredExactlyOnce ==
    /\ [](\A s \in Subscribers : got[s] <= 1)
    /\ []((~Delivering /\ dispMsg # NoMsg) => \A s \in subsAt : got[s] = 1)
    /\ [](\A s \in drained : pcSub[s] # "reading")
    /\ Delivering ~> (dispPc = "select" /\ \A s \in subsAt : got[s] = 1)

\* C5 witness: a record was handed over while two subscribers were
\* registered and both readers have received it.
C5_Witness ==
    /\ dispPc = "select"
    /\ dispMsg # NoMsg
    /\ Cardinality(subsAt) >= 2
    /\ \A s \in subsAt : got[s] = 1 /\ pcSub[s] = "reading"
    /\ drained = {}

\* C6 as stated: no subscriber receives a record whose producer had called
\* Msg before the subscriber's Subscribe call began.
C6_NoRecordCalledBeforeSubscribe ==
    \A s \in Subscribers : got[s] > 0 => s \notin dispEarlier

\* C6 amended: a record is sent only to the subscribers that were registered
\* when the dispatcher received it; a subscriber never receives a record the
\* dispatcher had received before it accepted the subscription.
C6_OnlyRegisteredAtHandoff ==
    /\ \A s \in Subscribers : got[s] > 0 => s \in subsAt
    /\ dispPc = "send" => dispCur \in subsAt

\* C6 witness: a subscriber registered after the last record was received
\* has not been sent it, while a subscriber registered before has.
C6_Witness ==
    /\ dispPc = "select"
    /\ dispMsg # NoMsg
    /\ \E s \in subs \ subsAt : got[s] = 0
    /\ \E s \in subsAt : got[s] = 1

\* C7: while the dispatcher has not returned, a call of a subscription's
\* cancel function eventually returns, also when the dispatcher is sending a
\* record to that very subscriber; a subscriber whose cancel returned is no
\* longer in subs and the dispatcher never waits for it; the dispatcher
\* always gets back to its select.
C7_UnsubscribeReturns ==
    /\ \A s \in Subscribers :
          (pcSub[s] = "cancelling") ~> (pcSub[s] = "cancelled" \/ dispPc = "stopped")
    /\ [](\A s \in Subscribers :
            pcSub[s] = "cancelled" =>
                /\ s \notin subs
                /\ s \notin dispTodo
                /\ ~(dispPc = "send" /\ dispCur = s))
    /\ (dispPc = "send") ~> (dispPc = "select")

\* C7 witness: a subscriber cancelled while the dispatcher was sending it a
\* record (unSubscribe read and dropped it), its cancel has returned, and
\* another subscriber's reader has received the record.
C7_Witness ==
    \E s1 \in Subscribers, s2 \in Subscribers :
        /\ s1 # s2
        /\ pcSub[s1] = "cancelled"
        /\ s1 \in drained
        /\ pcSub[s2] = "reading"
        /\ got[s2] = 1
        /\ dispPc = "select"

\* C8 as stated: a producer in Msg never waits for a subscriber to consume a
\* record, so no producer is waiting on l.feed while the dispatcher is
\* blocked sending a record to a subscriber.
C8_MsgNeverWaitsForSubscriber ==
    \A p \in Producers : pcProd[p] = "sending" => dispPc # "send"

\* C8 amended: Msg returns with the one handoff of its record on l.feed: as
\* soon as the dispatcher holds a record, the Msg call that emitted it has
\* returned, whether or not any subscriber has consumed that record.
C8_MsgReturnsAtHandoff ==
    dispMsg # NoMsg =>
        /\ sent[dispMsg[1]] >= dispMsg[2]
        /\ (pcProd[dispMsg[1]] = "sending" => CurRecord(dispMsg[1]) # dispMsg)

\* C8 witness: Msg has returned while the dispatcher is still blocked
\* sending the record to the first subscriber and no one has consumed it.
C8_Witness ==
    /\ dispPc = "send"
    /\ pcProd[dispMsg[1]] = "idle"
    /\ sent[dispMsg[1]] = dispMsg[2]
    /\ \A s \in Subscribers : got[s] = 0

\* A goroutine that waits at a channel operation only the dispatcher can
\* complete: a producer sending on l.feed, Subscribe sending on l.sub,
\* unSubscribe in its select on l.unsub and the subscriber's channel.
BlockedOnBus ==
    {<<"producer", p>> : p \in {q \in Producers : pcProd[q] = "sending"}}
    \cup {<<"subscriber", s>> :
            s \in {t \in Subscribers : pcSub[t] \in {"subscribing", "cancelling"}}}

\* C32: after ctx is cancelled Logger.Start and every subscriber goroutine
\* return.  In finite-run form: once the dispatcher has returned, no
\* producer and no subscriber (in Subscribe, or in the cancel that
\* LogToStdout defers) waits at a bus channel, where nothing could ever
\* complete its operation.
C32_NoneBlockedAfterDispatcherExit ==
    dispPc = "stopped" => BlockedOnBus = {}

----------------------------------------------------------------------------
(***************************************************************************)
(* Process root: Run and App.run of src/nvr.go.  The calls to the external *)
(* registration service, to the monitor manager and to the HTTP server     *)
(* are steps with every outcome the call can have.                         *)
(***************************************************************************)

\* Attempts of retry.Do (nvr.go:135: the retry library's default).
RetryAttempts == 10

ErrServerClosed == "http: Server closed"
Signals == {"SIGINT", "SIGTERM"}

RunInit ==
    /\ pcRun = "init"
    /\ runErr = Nil
    /\ runRet = Nil
    /\ attempts = 0
    /\ via = "none"
    /\ fatalCh = "empty"
    /\ stopCh = "empty"
    /\ pcApp = "none"
    /\ appCtxDone = FALSE
    /\ monitorsStarted = FALSE
    /\ monitorsStopped = FALSE
    /\ wgWaited = FALSE
    /\ serverShutdown = FALSE
    /\ shutdownRes = "none"
    /\ fatalSeen = FALSE

\* nvr.go:64-81: no -env flag (usage is printed, nil is returned), or the
\* path or newApp fails and the error is returned.
Run_EarlyReturn ==
    /\ pcRun = "init"
    /\ \E e \in {Nil, "could not get absolute path of env.yaml", "newApp error"} :
          /\ runErr' = e
          /\ runRet' = e
    /\ pcRun' = "returned"
    /\ UNCHANGED <<attempts, via, fatalCh, stopCh, pcApp, appCtxDone,
                   monitorsStarted, monitorsStopped, wgWaited, serverShutdown,
                   shutdownRes, fatalSeen>>
    /\ UNCHANGED notRunVars

\* nvr.go:77-93: the app is made, app.run is started in its goroutine
\* (which sets app.server first, nvr.go:375) and the signals are registered.
Run_Setup ==
    /\ pcRun = "init"
    /\ pcApp' = "logger"
    /\ pcRun' = "register"
    /\ UNCHANGED <<runErr, runRet, attempts, via, fatalCh, stopCh, appCtxDone,
                   monitorsStarted, monitorsStopped, wgWaited, serverShutdown,
                   shutdownRes, fatalSeen>>
    /\ UNCHANGED notRunVars

\* The monitors are started before the video server.
AppNextPcMonitorsFirst(pc) ==
    CASE pc = "logger" -> "hooks"
      [] pc = "hooks" -> "prepare"
      [] pc = "prepare" -> "monitors"
      [] pc = "video" -> "monitors"

\* nvr.go:377-398: Logger.Start, hooks.appRun, PrepareEnvironment and
\* videoServer.Start, one after the other; each may fail, and then app.run
\* returns the error, which is sent on fatal.
AppNextPc(pc) ==
    CASE pc = "logger" -> "hooks"
      [] pc = "hooks" -> "prepare"
      [] pc = "prepare" -> "video"
      [] pc = "video" -> "monitors"

App_Step ==
    /\ pcApp \in {"logger", "hooks", "prepare", "video"}
    /\ \/ /\ pcApp' = AppNextPc(pcApp)
          /\ UNCHANGED <<fatalCh, fatalSeen>>
       \/ /\ pcApp' = "returned"
          /\ fatalCh' = "could not start: " \o pcApp
          /\ fatalSeen' = TRUE
    /\ UNCHANGED <<pcRun, runErr, runRet, attempts, via, stopCh, appCtxDone,
                   monitorsStarted, monitorsStopped, wgWaited, serverShutdown,
                   shutdownRes>>
    /\ UNCHANGED notRunVars

\* nvr.go:400-404: app.monitorManager.StartMonitors()
App_StartMonitors ==
    /\ pcApp = "monitors"
    /\ monitorsStarted' = TRUE
    /\ pcApp' = "serve"
    /\ UNCHANGED <<pcRun, runErr, runRet, attempts, via, fatalCh, stopCh,
                   appCtxDone, monitorsStopped, wgWaited, serverShutdown,
                   shutdownRes, fatalSeen>>
    /\ UNCHANGED notRunVars

\* nvr.go:405 and nvr.go:87: ListenAndServe returns, because the port cannot
\* be bound or because Shutdown was called, and the error is sent on fatal.
App_ServeReturn ==
    /\ pcApp = "serve"
    /\ \/ /\ serverShutdown
          /\ fatalCh' = ErrServerClosed
          /\ UNCHANGED fatalSeen
       \/ /\ ~serverShutdown
          /\ fatalCh' = "listen: address already in use"
          /\ fatalSeen' = TRUE
    /\ pcApp' = "returned"
    /\ UNCHANGED <<pcRun, runErr, runRet, attempts, via, stopCh, appCtxDone,
                   monitorsStarted, monitorsStopped, wgWaited, serverShutdown,
                   shutdownRes>>
    /\ UNCHANGED notRunVars

\* nvr.go:92-93: a SIGINT or SIGTERM arrives after signal.Notify; it is put
\* in stop unless stop is full.
Signal_Arrive ==
    /\ pcRun \notin {"init", "returned"}
    /\ stopCh = "empty"
    /\ \E sig \in Signals : stopCh' = sig
    /\ UNCHANGED <<pcRun, runErr, runRet, attempts, via, fatalCh, pcApp,
                   appCtxDone, monitorsStarted, monitorsStopped, wgWaited,
                   serverShutdown, shutdownRes, fatalSeen>>
    /\ UNCHANGED notRunVars

\* nvr.go:95-131: the id is found (err is set by ExternalIP) and the
\* register request is made; err is what client.Do returned.
Run_Register ==
    /\ pcRun = "register"
    /\ \E e \in {Nil, "register: connection refused"} : runErr' = e
    /\ pcRun' = "sync"
    /\ UNCHANGED <<runRet, attempts, via, fatalCh, stopCh, pcApp, appCtxDone,
                   monitorsStarted, monitorsStopped, wgWaited, serverShutdown,
                   shutdownRes, fatalSeen>>
    /\ UNCHANGED notRunVars

\* nvr.go:136-160: one attempt of retry.Do.  The function assigns the err of
\* Run; retry.Do makes another attempt when the function returns an error
\* and attempts are left.
Run_SyncAttempt ==
    /\ pcRun = "sync"
    /\ attempts < RetryAttempts
    /\ attempts' = attempts + 1
    /\ \/ \* client.Do or ReadAll fails: the error is returned
          /\ \E e \in {"sync: connection refused", "sync: read error"} : runErr' = e
          /\ pcRun' = IF attempts + 1 < RetryAttempts THEN "sync" ELSE "select"
       \/ \* the body is read; err is what json.Unmarshal returned, and the
          \* function returns nil, or err when the message is "error"
          /\ \E e \in {Nil, "sync: invalid json"} : runErr' = e
          /\ pcRun' = "select"
       \/ \* the message is "error" and json.Unmarshal returned nil
          /\ runErr' = Nil
          /\ pcRun' = "select"
    /\ UNCHANGED <<runRet, via, fatalCh, stopCh, pcApp, appCtxDone,
                   monitorsStarted, monitorsStopped, wgWaited, serverShutdown,
                   shutdownRes, fatalSeen>>
    /\ UNCHANGED notRunVars

\* nvr.go:163-169: the select receives from fatal or from stop.
Run_Select ==
    /\ pcRun = "select"
    /\ \/ /\ fatalCh # "empty"
          /\ runErr' = fatalCh
          /\ fatalCh' = "empty"
          /\ via' = "fatal"
          /\ UNCHANGED stopCh
       \/ /\ stopCh # "empty"
          /\ stopCh' = "empty"
          /\ via' = "signal"
          /\ UNCHANGED <<runErr, fatalCh>>
    /\ pcRun' = "unregister"
    /\ UNCHANGED <<runRet, attempts, pcApp, appCtxDone, monitorsStarted,
                   monitorsStopped, wgWaited, serverShutdown, shutdownRes,
                   fatalSeen>>
    /\ UNCHANGED notRunVars

\* nvr.go:171-177: res, err = client.Do(req) of the un-register request.
Run_Unregister ==
    /\ pcRun = "unregister"
    /\ \E e \in {Nil, "un-register: connection refused"} : runErr' = e
    /\ pcRun' = "stopMonitors"
    /\ UNCHANGED <<runRet, attempts, via, fatalCh, stopCh, pcApp, appCtxDone,
                   monitorsStarted, monitorsStopped, wgWaited, serverShutdown,
                   shutdownRes, fatalSeen>>
    /\ UNCHANGED notRunVars

\* nvr.go:180-181: app.monitorManager.StopMonitors() is called and returns.
Run_StopMonitorsSkipped ==
    /\ pcRun = "stopMonitors"
    /\ pcRun' = "cancel"
    /\ UNCHANGED <<runErr, runRet, attempts, via, fatalCh, stopCh, pcApp,
                   appCtxDone, monitorsStarted, monitorsStopped, wgWaited,
                   serverShutdown, shutdownRes, fatalSeen>>
    /\ UNCHANGED notRunVars
Run_StopMonitors ==
    /\ pcRun = "stopMonitors"
    /\ monitorsStopped' = TRUE
    /\ pcRun' = "cancel"
    /\ UNCHANGED <<runErr, runRet, attempts, via, fatalCh, stopCh, pcApp,
                   appCtxDone, monitorsStarted, wgWaited, serverShutdown,
                   shutdownRes, fatalSeen>>
    /\ UNCHANGED notRunVars

\* nvr.go:183: cancel()
Run_Cancel ==
    /\ pcRun = "cancel"
    /\ appCtxDone' = TRUE
    /\ pcRun' = "wgWait"
    /\ UNCHANGED <<runErr, runRet, attempts, via, fatalCh, stopCh, pcApp,
                   monitorsStarted, monitorsStopped, wgWaited, serverShutdown,
                   shutdownRes, fatalSeen>>
    /\ UNCHANGED notRunVars

\* nvr.go:184: wg.Wait() returns once the goroutines counted in wg, which
\* end when ctx is cancelled, have ended.
Run_WgWait ==
    /\ pcRun = "wgWait"
    /\ appCtxDone
    /\ wgWaited' = TRUE
    /\ pcRun' = "checkErr"
    /\ UNCHANGED <<runErr, runRet, attempts, via, fatalCh, stopCh, pcApp,
                   appCtxDone, monitorsStarted, monitorsStopped, serverShutdown,
                   shutdownRes, fatalSeen>>
    /\ UNCHANGED notRunVars

\* nvr.go:186-192: err is returned when it is not nil; otherwise the server
\* is shut down with a 5 s deadline and what Shutdown returns is returned.
Run_Return ==
    /\ pcRun = "checkErr"
    /\ \/ /\ runErr # Nil
          /\ runRet' = runErr
          /\ UNCHANGED <<serverShutdown, shutdownRes>>
       \/ /\ runErr = Nil
          /\ serverShutdown' = TRUE
          /\ \E r \in {Nil, "context deadline exceeded"} :
                /\ shutdownRes' = r
                /\ runRet' = r
    /\ pcRun' = "returned"
    /\ UNCHANGED <<runErr, attempts, via, fatalCh, stopCh, pcApp, appCtxDone,
                   monitorsStarted, monitorsStopped, wgWaited, fatalSeen>>
    /\ UNCHANGED notRunVars

RunNext ==
    \/ Run_EarlyReturn
    \/ Run_Setup
    \/ App_Step
    \/ App_StartMonitors
    \/ App_ServeReturn
    \/ Signal_Arrive
    \/ Run_Register
    \/ Run_SyncAttempt
    \/ Run_Select
    \/ Run_Unregister
    \/ Run_StopMonitors
    \/ Run_Cancel
    \/ Run_WgWait
    \/ Run_Return

\* Run's goroutine runs, and every call it makes returns.  No signal need
\* arrive and app.run need not fail.
RunFairness ==
    /\ WF_vars(Run_EarlyReturn \/ Run_Setup)
    /\ WF_vars(Run_Register)
    /\ WF_vars(Run_SyncAttempt)
    /\ WF_vars(Run_Select)
    /\ WF_vars(Run_Unregister)
    /\ WF_vars(Run_StopMonitors)
    /\ WF_vars(Run_Cancel)
    /\ WF_vars(Run_WgWait)
    /\ WF_vars(Run_Return)

----------------------------------------------------------------------------
(***************************************************************************)
(* Properties of Run, checked under SpecRun.                               *)
(***************************************************************************)

C10_SignalShutdownReturnsNil ==
    (pcRun = "returned" /\ via = "signal" /\ ~fatalSeen
        /\ shutdownRes # "context deadline exceeded") =>
            (runRet = Nil /\ monitorsStopped /\ serverShutdown)

\* C11: when the select of Run took the fatal error of app.run, Run has
\* stopped the monitors and returns a non-nil error.
C11_FatalReturnsNonNil ==
    (pcRun = "returned" /\ via = "fatal") =>
        (runRet # Nil /\ monitorsStopped)

\* app.run goes from one position to another.
AppGoes(from, to) == pcApp = from /\ pcApp' = to

\* The steps of app.run that come before StartMonitors and may fail.
StartupSteps == {"logger", "hooks", "prepare", "video"}

\* C39: in app.run the monitors are started only after the log dispatcher
\* was started, the environment prepared and the video server started, in
\* that order (the start-up hooks run after the log dispatcher); when one
\* of these steps fails, app.run returns the error, which goes to fatal,
\* and no monitor was or is started.
C39_MonitorsAfterStartup ==
    /\ [](monitorsStarted => pcApp \in {"serve", "returned"})
    /\ [][/\ (monitorsStarted' /\ ~monitorsStarted) => pcApp = "monitors"
          /\ (pcApp' = "monitors" /\ pcApp # "monitors") => pcApp = "video"
          /\ (pcApp' = "video" /\ pcApp # "video") => pcApp = "prepare"
          /\ (pcApp' = "prepare" /\ pcApp # "prepare") => pcApp = "hooks"
          /\ (pcApp' = "hooks" /\ pcApp # "hooks") => pcApp = "logger"
          /\ (pcApp \in StartupSteps /\ pcApp' = "returned") =>
                /\ fatalCh' = "could not start: " \o pcApp
                /\ ~monitorsStarted']_vars
    /\ []((pcApp = "returned" /\ ~monitorsStarted)
            => \/ fatalSeen
               \/ fatalCh = ErrServerClosed)

\* C39 witness: the monitors were started and app.run is serving.
C39_Witness ==
    /\ pcApp = "serve"
    /\ monitorsStarted
    /\ ~monitorsStopped
    /\ ~fatalSeen

----------------------------------------------------------------------------
(***************************************************************************)
(* Motion detector loop: src/addons/motion/backend.go, startDetector and   *)
(* detectorProcess.  The monitor that owns the loop (package monitor) is   *)
(* modelled from its specification: its stop cancels m.Ctx and then waits  *)
(* on m.WG.                                                                *)
(***************************************************************************)

\* The counter starts saturates here.
MaxStarts == 2

DetInit ==
    /\ pcMon = "idle"
    /\ monCtxDone = FALSE
    /\ wgCount = 0
    /\ otherRunning = FALSE
    /\ pcDet = "none"
    /\ detProc = "none"
    /\ detRes = "none"
    /\ starts = 0
    /\ lastEnd = "none"
    /\ sleptSince = FALSE
    /\ detDone = 0
    /\ sleepAfterCancel = FALSE
    /\ detAtWait = "none"

\* The monitor starts: a goroutine of its own is counted in m.WG and
\* started, and the start hooks run.  onMonitorStart (backend.go:57-95)
\* returns early when motion detection is off or the set-up fails, and
\* otherwise ends with "go a.startDetector(detectorArgs)".
Mon_Start ==
    /\ pcMon = "idle"
    /\ pcMon' = "running"
    /\ wgCount' = wgCount + 1
    /\ otherRunning' = TRUE
    /\ \E detect \in BOOLEAN :
          pcDet' = IF detect THEN "spawned" ELSE "none"
    /\ UNCHANGED <<monCtxDone, detProc, detRes, starts, lastEnd, sleptSince,
                   detDone, sleepAfterCancel, detAtWait>>
    /\ UNCHANGED notDetVars

\* The monitor's stop begins: m.Ctx is cancelled.
Mon_Cancel ==
    /\ pcMon = "running"
    /\ monCtxDone' = TRUE
    /\ pcMon' = "waiting"
    /\ UNCHANGED <<wgCount, otherRunning, pcDet, detProc, detRes, starts,
                   lastEnd, sleptSince, detDone, sleepAfterCancel, detAtWait>>
    /\ UNCHANGED notDetVars

\* The other goroutine of the monitor sees m.Ctx cancelled and ends with
\* m.WG.Done().
Other_Done ==
    /\ otherRunning
    /\ monCtxDone
    /\ otherRunning' = FALSE
    /\ wgCount' = wgCount - 1
    /\ UNCHANGED <<pcMon, monCtxDone, pcDet, detProc, detRes, starts, lastEnd,
                   sleptSince, detDone, sleepAfterCancel, detAtWait>>
    /\ UNCHANGED notDetVars

\* The monitor's stop: m.WG.Wait() returns when the counter is zero.
Mon_WaitReturn ==
    /\ pcMon = "waiting"
    /\ wgCount = 0
    /\ pcMon' = "stopped"
    /\ detAtWait' = pcDet
    /\ UNCHANGED <<monCtxDone, wgCount, otherRunning, pcDet, detProc, detRes,
                   starts, lastEnd, sleptSince, detDone, sleepAfterCancel>>
    /\ UNCHANGED notDetVars

\* backend.go:234: a.m.WG.Add(1), the first statement of the goroutine
\* started at backend.go:92.
Det_Add ==
    /\ pcDet = "spawned"
    /\ wgCount' = wgCount + 1
    /\ pcDet' = "check"
    /\ UNCHANGED <<pcMon, monCtxDone, otherRunning, detProc, detRes, starts,
                   lastEnd, sleptSince, detDone, sleepAfterCancel, detAtWait>>
    /\ UNCHANGED notDetVars

\* backend.go:237-242: the loop ends with WG.Done when a.ctx.Err() is not
\* nil, and calls detectorProcess otherwise.
Det_Check ==
    /\ pcDet = "check"
    /\ IF monCtxDone
       THEN /\ wgCount' = wgCount - 1
            /\ detDone' = detDone + 1
            /\ pcDet' = "stopped"
       ELSE /\ pcDet' = "process"
            /\ UNCHANGED <<wgCount, detDone>>
    /\ UNCHANGED <<pcMon, monCtxDone, otherRunning, detProc, detRes, starts,
                   lastEnd, sleptSince, sleepAfterCancel, detAtWait>>
    /\ UNCHANGED notDetVars

\* backend.go:250-272 and ffmpeg.go:117-121: the pipes are made and
\* process.Start launches the subprocess, or one of them fails and
\* detectorProcess returns the error without a subprocess.
Det_StartProcess ==
    /\ pcDet = "process"
    /\ \/ /\ detProc' = "running"
          /\ starts' = IF starts < MaxStarts THEN starts + 1 ELSE starts
          /\ pcDet' = "running"
          /\ UNCHANGED detRes
       \/ /\ detProc' = "exited"
          /\ detRes' = "crash"
          /\ pcDet' = "running"
          /\ UNCHANGED starts
    /\ UNCHANGED <<pcMon, monCtxDone, wgCount, otherRunning, lastEnd, sleptSince,
                   detDone, sleepAfterCancel, detAtWait>>
    /\ UNCHANGED notDetVars

\* The subprocess ends by itself: with status 0 or 255, for which
\* process.Start returns nil (ffmpeg.go:135-139), or otherwise.
Det_ProcExit ==
    /\ detProc = "running"
    /\ detProc' = "exited"
    /\ \E r \in {"ok", "crash"} : detRes' = r
    /\ UNCHANGED <<pcMon, monCtxDone, wgCount, otherRunning, pcDet, starts,
                   lastEnd, sleptSince, detDone, sleepAfterCancel, detAtWait>>
    /\ UNCHANGED notDetVars

\* ffmpeg.go:123-129, 144-153: a.ctx is cancelled, so the goroutine of
\* process.Start calls Stop, and the interrupt, or the kill after the
\* timeout, ends the subprocess: with status 255 on the interrupt, or by
\* the signal.
Det_ProcStopped ==
    /\ detProc = "running"
    /\ monCtxDone
    /\ detProc' = "exited"
    /\ \E r \in {"ok", "crash"} : detRes' = r
    /\ UNCHANGED <<pcMon, monCtxDone, wgCount, otherRunning, pcDet, starts,
                   lastEnd, sleptSince, detDone, sleepAfterCancel, detAtWait>>
    /\ UNCHANGED notDetVars

\* backend.go:272-277 and 242-245: process.Start returns; on an error
\* detectorProcess returns "detector crashed", it is logged and
\* time.Sleep(1 * time.Second) begins; on nil the loop goes on at once.
Det_ProcessReturnNoSleep ==
    /\ pcDet = "running"
    /\ detProc = "exited"
    /\ detProc' = "none"
    /\ detRes' = "none"
    /\ lastEnd' = detRes
    /\ sleptSince' = FALSE
    /\ pcDet' = "check"
    /\ UNCHANGED sleepAfterCancel
    /\ UNCHANGED <<pcMon, monCtxDone, wgCount, otherRunning, starts, detDone,
                   detAtWait>>
    /\ UNCHANGED notDetVars
Det_ProcessReturn ==
    /\ pcDet = "running"
    /\ detProc = "exited"
    /\ detProc' = "none"
    /\ detRes' = "none"
    /\ lastEnd' = detRes
    /\ sleptSince' = FALSE
    /\ IF detRes = "crash"
       THEN /\ pcDet' = "sleep"
            /\ sleepAfterCancel' = (sleepAfterCancel \/ monCtxDone)
       ELSE /\ pcDet' = "check"
            /\ UNCHANGED sleepAfterCancel
    /\ UNCHANGED <<pcMon, monCtxDone, wgCount, otherRunning, starts, detDone,
                   detAtWait>>
    /\ UNCHANGED notDetVars

\* backend.go:244: the sleep of one second is over.
Det_SleepEnd ==
    /\ pcDet = "sleep"
    /\ sleptSince' = TRUE
    /\ pcDet' = "check"
    /\ UNCHANGED <<pcMon, monCtxDone, wgCount, otherRunning, detProc, detRes,
                   starts, lastEnd, detDone, sleepAfterCancel, detAtWait>>
    /\ UNCHANGED notDetVars

DetNext ==
    \/ Mon_Start
    \/ Mon_Cancel
    \/ Other_Done
    \/ Mon_WaitReturn
    \/ Det_Add
    \/ Det_Check
    \/ Det_StartProcess
    \/ Det_ProcExit
    \/ Det_ProcStopped
    \/ Det_ProcessReturn
    \/ Det_SleepEnd

\* The goroutines run; a stopped subprocess ends (process.Stop kills it
\* after the timeout).  The monitor need not be stopped and a subprocess
\* need not end by itself.
DetFairness ==
    /\ WF_vars(Other_Done)
    /\ WF_vars(Mon_WaitReturn)
    /\ WF_vars(Det_Add)
    /\ WF_vars(Det_Check)
    /\ WF_vars(Det_StartProcess)
    /\ WF_vars(Det_ProcStopped)
    /\ WF_vars(Det_ProcessReturn)
    /\ WF_vars(Det_SleepEnd)

----------------------------------------------------------------------------
(***************************************************************************)
(* Properties of the detector loop, checked under SpecDet.                 *)
(***************************************************************************)

\* C12: when the Wait of the monitor's stop has returned, the detector loop
\* that onMonitorStart started has exited.
C12_WaitCoversDetector ==
    (pcMon = "stopped" /\ pcDet # "none") =>
        (detAtWait = "stopped" /\ pcDet = "stopped")

\* C13: once m.Ctx is cancelled no back-off sleep begins any more, the loop
\* calls WG.Done at most once, and when it has ended it has called WG.Done
\* once and has left no subprocess.
C13_StopsWithoutBackoff ==
    /\ ~sleepAfterCancel
    /\ detDone <= 1
    /\ pcDet = "stopped" => (detDone = 1 /\ detProc = "none")

\* C14: while m.Ctx is not cancelled the loop calls detectorProcess again
\* every time it has returned, and after a call that ended with an error
\* the next one begins only when the sleep of one second is over.
C14_RestartsWithBackoff ==
    /\ [](pcDet \in {"process", "running"} /\ lastEnd = "crash" => sleptSince)
    /\ [](pcDet = "sleep" => lastEnd = "crash")
    /\ (pcDet \in {"check", "sleep"} /\ ~monCtxDone)
          ~> (pcDet = "process" \/ monCtxDone)

\* C14 witness: the second subprocess was launched after the first one
\* crashed and the sleep was over.
C14_Witness ==
    /\ pcDet = "running"
    /\ detProc = "running"
    /\ starts >= 2
    /\ lastEnd = "crash"
    /\ sleptSince
    /\ ~monCtxDone

----------------------------------------------------------------------------
(***************************************************************************)
(* Motion detector zones: generateMasks, generateDetectorArgs,             *)
(* parseFFmpegOutput and sendTrigger of src/addons/motion/backend.go.      *)
(* A scene score is the number ffmpeg prints, in millionths (0.084000 is   *)
(* 84000); a parsed score and a threshold are percentages in millionths.   *)
(***************************************************************************)

\* Longest zone list and last clock value.
MaxZones == 2
MaxTime == 2

\* Thresholds of 0 % and 5 %; scene scores 0, 0.03, 0.05 and 0.084.
Micro == 1000000
Thresholds == {0, 5 * Micro}
SceneScores == {0, 30000, 50000, 84000}
Durations == {1, 2}

ZoneLists ==
    UNION {[1..n -> [Enable : BOOLEAN, Threshold : Thresholds]] : n \in 1..MaxZones}

\* backend.go:159-180: one mask per enabled zone, in the order of the zone
\* list, saved as zone<i>.png where i is the index of the zone in the list.
\* A mask is represented by that index i.
RECURSIVE generateMasksFrom(_, _)
generateMasksFrom(zs, i) ==
    IF i >= Len(zs) THEN <<>>
    ELSE (IF zs[i + 1].Enable THEN <<i>> ELSE <<>>) \o generateMasksFrom(zs, i + 1)

generateMasks(zs) == generateMasksFrom(zs, 0)

\* backend.go:213-221: filter output number index overlays input index+1,
\* which is masks[index] (backend.go:201-203), and attaches id=index.
OutputMask(ms, index) == ms[index + 1]

\* The ids are numbered from one, as the inputs of the masks are.
OutputIdFromOne(ms, index) == index + 1

\* backend.go:216: metadata=add:key=id:value=index.
OutputId(ms, index) == index

\* backend.go:384-389: parseSegment returns the score times 100.
parseScore(scene) == scene * 100

\* backend.go:288-295: a score of 0 is skipped; sendTrigger is called when
\* a.zones[id].Threshold < score.
ShouldTriggerAtThreshold(zs, id, score) ==
    score # 0 /\ zs[id + 1].Threshold <= score
ShouldTrigger(zs, id, score) ==
    score # 0 /\ zs[id + 1].Threshold < score

\* backend.go:304-306: monitor.Event{End: time.Now().UTC().Add(a.duration)}
TriggerEventNoDuration(now, duration) == [End |-> now]
TriggerEvent(now, duration) == [End |-> now + duration]

NoEvent == [End |-> -1]

\* Before onMonitorStart has run.
ZoneInit ==
    /\ zones = <<>>
    /\ motionDuration = 0
    /\ masks = <<>>
    /\ zNow = 0
    /\ lastOut = -1
    /\ lastId = -1
    /\ lastScore = 0
    /\ lastEmitted = FALSE
    /\ lastTime = 0
    /\ lastEvent = NoEvent

\* onMonitorStart (backend.go:73-90): the zones are unmarshalled, the masks
\* generated and the duration parsed.
Zone_Configure ==
    /\ zones = <<>>
    /\ zones' \in ZoneLists
    /\ motionDuration' \in Durations
    /\ masks' = generateMasks(zones')
    /\ UNCHANGED <<zNow, lastOut, lastId, lastScore, lastEmitted, lastTime,
                   lastEvent>>
    /\ UNCHANGED notZoneVars

\* Time passes.
Zone_Tick ==
    /\ zNow < MaxTime
    /\ zNow' = zNow + 1
    /\ UNCHANGED <<zones, motionDuration, masks, lastOut, lastId, lastScore,
                   lastEmitted, lastTime, lastEvent>>
    /\ UNCHANGED notZoneVars

\* backend.go:283-296: filter output out prints its id and a scene score,
\* parseLine returns the pair, and the threshold of a.zones[id] decides
\* whether sendTrigger sends an event.
Zone_Frame ==
    /\ \E out \in 0..(Len(masks) - 1), scene \in SceneScores :
          LET id == OutputId(masks, out)
              score == parseScore(scene)
          IN  /\ lastOut' = out
              /\ lastId' = id
              /\ lastScore' = score
              /\ lastTime' = zNow
              /\ IF ShouldTrigger(zones, id, score)
                 THEN /\ lastEmitted' = TRUE
                      /\ lastEvent' = TriggerEvent(zNow, motionDuration)
                 ELSE /\ lastEmitted' = FALSE
                      /\ lastEvent' = NoEvent
    /\ UNCHANGED <<zones, motionDuration, masks, zNow>>
    /\ UNCHANGED notZoneVars

ZoneNext ==
    \/ Zone_Configure
    \/ Zone_Tick
    \/ Zone_Frame

----------------------------------------------------------------------------
(***************************************************************************)
(* Properties of the zones, checked under SpecZone.                        *)
(***************************************************************************)

\* C15: for the pair (id, score) parsed last, a trigger was emitted exactly
\* when score is greater than the threshold of a.zones[id], and the event
\* emitted ends at the time of emission plus the configured duration.
C15_TriggerIffAboveThreshold ==
    lastOut # -1 =>
        /\ lastEmitted <=> (lastScore > zones[lastId + 1].Threshold)
        /\ lastEmitted => lastEvent.End = lastTime + motionDuration
        /\ ~lastEmitted => lastEvent = NoEvent

\* C15 witness: a score of 8.4 % against a threshold of 5 % has triggered,
\* after the clock moved.
C15_Witness ==
    /\ lastOut # -1
    /\ lastScore = 8400000
    /\ zones[lastId + 1].Threshold = 5 * Micro
    /\ lastEmitted
    /\ lastTime > 0
    /\ lastEvent.End = lastTime + motionDuration

\* C16: the id attached to a filter output is the index, in the zone list,
\* of the zone whose mask is overlaid on that output, so that the threshold
\* compared with a score is the one of the zone that produced it.
C16_IdIsZoneOfMask ==
    lastOut # -1 => lastId = OutputMask(masks, lastOut)

----------------------------------------------------------------------------
(***************************************************************************)
(* WaitForKeyframe, getSegmentDuration and parseDurations of               *)
(* src/pkg/ffmpeg/ffmpeg.go.  A line of the playlist is a sequence of      *)
(* characters.                                                             *)
(***************************************************************************)

\* Most segments the playlist lists (its sliding window).
MaxSegments == 2

\* ffmpeg.go:407: time.After(30 * time.Second)
KeyframeTimeout == 30

ErrKeyFrameTimeout == "timeout"

\* Segment durations in microseconds: 2.0005 s, 4.25 s and 10 s.
SegmentDurations == {2000500, 4250000, 10000000}

DigitChars == <<"0", "1", "2", "3", "4", "5", "6", "7", "8", "9">>
IsDigit(c) == \E i \in 1..10 : DigitChars[i] = c

\* The decimal digits of n, and its last k digits padded with zeros.
RECURSIVE Decimal(_)
Decimal(n) ==
    IF n < 10 THEN <<DigitChars[n + 1]>>
    ELSE Decimal(n \div 10) \o <<DigitChars[(n % 10) + 1]>>

RECURSIVE Padded(_, _)
Padded(n, k) ==
    IF k = 0 THEN <<>>
    ELSE Padded(n \div 10, k - 1) \o <<DigitChars[(n % 10) + 1]>>

ExtInfPrefix == <<"#", "E", "X", "T", "I", "N", "F", ":">>

\* The entry of a segment of us microseconds, as the muxer prints it:
\* "#EXTINF:4.250000," (ffmpeg.go:425).
ExtInfLine(us) ==
    ExtInfPrefix \o Decimal(us \div 1000000) \o <<".">>
        \o Padded(us % 1000000, 6) \o <<",">>

\* The name of segment number k: "10.ts" (ffmpeg.go:426).
SegmentLine(k) == Decimal(k) \o <<".", "t", "s">>

\* The lines of the playlist file (ffmpeg.go:420-428).
RECURSIVE SegmentLines(_, _)
SegmentLines(segs, k) ==
    IF segs = <<>> THEN <<>>
    ELSE <<ExtInfLine(Head(segs)), SegmentLine(k)>> \o SegmentLines(Tail(segs), k + 1)

PlaylistLines(segs) ==
    << <<"#", "E", "X", "T", "M", "3", "U">> >> \o SegmentLines(segs, 10)

\* ffmpeg.go:455-465: the lines of 17 characters that begin with "#EXTINF:"
\* are kept, and of each of them line[8:13].
IsExtInf(line) == Len(line) = 17 /\ SubSeq(line, 1, 8) = ExtInfPrefix

parseDurations(lines) ==
    LET kept == SelectSeq(lines, IsExtInf)
    IN  [i \in 1..Len(kept) |-> SubSeq(kept[i], 9, 13)]

\* strings.ReplaceAll(str, ".", "") and strconv.Atoi (ffmpeg.go:444-445);
\* Atoi fails (-1 here) on an empty string or a character that is no digit.
ReplaceAllDots(str) == SelectSeq(str, LAMBDA c : c # ".")

DigitValue(c) == CHOOSE d \in 0..9 : DigitChars[d + 1] = c

RECURSIVE AtoiUpTo(_, _)
AtoiUpTo(str, k) ==
    IF k = 0 THEN 0 ELSE AtoiUpTo(str, k - 1) * 10 + DigitValue(str[k])

Atoi(str) ==
    IF str = <<>> \/ \E i \in 1..Len(str) : ~IsDigit(str[i]) THEN -1
    ELSE AtoiUpTo(str, Len(str))

\* ffmpeg.go:441-450: the sum over the last n entries of durations.
RECURSIVE totalDurationFrom(_, _)
totalDurationFrom(durations, i) ==
    IF i = 0 THEN 0
    ELSE Atoi(ReplaceAllDots(durations[Len(durations) - i + 1]))
            + totalDurationFrom(durations, i - 1)

KfResult(dur, err) == [dur |-> dur, err |-> err]

\* ffmpeg.go:418-453, for a file that was read; the duration is in
\* milliseconds.
getSegmentDuration(lines, n) ==
    LET durations == parseDurations(lines)
    IN  IF Len(durations) < n
        THEN KfResult(0, "not enough detections")
        ELSE IF \E i \in 1..n :
                    Atoi(ReplaceAllDots(durations[Len(durations) - i + 1])) = -1
             THEN KfResult(0, "could not parse duration")
             ELSE KfResult(totalDurationFrom(durations, n), Nil)

NoResult == KfResult(-1, "none")

KfInit ==
    /\ playlist = <<>>
    /\ pcKf = "idle"
    /\ nSegments = 0
    /\ kfElapsed = 0
    /\ kfCase = "none"
    /\ kfRet = NoResult
    /\ kfAdded = FALSE
    /\ kfRead = <<>>

\* The muxer ends a segment and rewrites the playlist, whose window keeps
\* the last MaxSegments entries.  A watcher that is waiting receives the
\* event (ffmpeg.go:403).
Playlist_AddSegment ==
    /\ \E d \in SegmentDurations :
          playlist' = IF Len(playlist) < MaxSegments
                      THEN Append(playlist, d)
                      ELSE Append(Tail(playlist), d)
    /\ pcKf \in {"idle", "waiting", "event"}
    /\ IF pcKf = "idle"
       THEN UNCHANGED <<pcKf, kfCase, kfAdded>>
       ELSE /\ kfAdded' = TRUE
            /\ pcKf' = "event"
            /\ kfCase' = IF pcKf = "waiting" THEN "event" ELSE kfCase
    /\ UNCHANGED <<nSegments, kfElapsed, kfRet, kfRead>>
    /\ UNCHANGED notKfVars

\* Another file-system event on the playlist file (its mode or times
\* change, it is written without a new entry): the watcher receives it too.
Playlist_OtherEvent ==
    /\ pcKf = "waiting"
    /\ pcKf' = "event"
    /\ kfCase' = "event"
    /\ UNCHANGED <<playlist, nSegments, kfElapsed, kfRet, kfAdded, kfRead>>
    /\ UNCHANGED notKfVars

\* ffmpeg.go:390-400: the call; the watcher is made and the file added, or
\* one of them fails and the error is returned.
Kf_Call ==
    /\ pcKf = "idle"
    /\ \E n \in 1..MaxSegments : nSegments' = n
    /\ \/ /\ pcKf' = "waiting"
          /\ UNCHANGED <<kfRet, kfCase>>
       \/ /\ pcKf' = "returned"
          /\ kfCase' = "setup"
          /\ kfRet' = KfResult(0, "watcher: too many open files")
    /\ UNCHANGED <<playlist, kfElapsed, kfAdded, kfRead>>
    /\ UNCHANGED notKfVars

\* A second passes while the select waits.
Kf_Tick ==
    /\ pcKf = "waiting"
    /\ kfElapsed < KeyframeTimeout
    /\ kfElapsed' = kfElapsed + 1
    /\ UNCHANGED <<playlist, pcKf, nSegments, kfCase, kfRet, kfAdded, kfRead>>
    /\ UNCHANGED notKfVars

\* ffmpeg.go:403-404 and 432-435: the event is received and the file read
\* (or ReadFile fails).
Kf_Event ==
    /\ pcKf = "event"
    /\ \/ /\ kfRead' = playlist
          /\ \E m3u8 \in {PlaylistLines(playlist)} :
                kfRet' = getSegmentDuration(m3u8, nSegments)
       \/ /\ kfRet' = KfResult(0, "open: no such file or directory")
          /\ UNCHANGED kfRead
    /\ pcKf' = "returned"
    /\ UNCHANGED <<playlist, nSegments, kfElapsed, kfCase, kfAdded>>
    /\ UNCHANGED notKfVars

\* ffmpeg.go:405-406: case err := <-watcher.Errors
Kf_WatcherError ==
    /\ pcKf = "waiting"
    /\ kfCase' = "error"
    /\ kfRet' = KfResult(0, "watcher: event queue overflow")
    /\ pcKf' = "returned"
    /\ UNCHANGED <<playlist, nSegments, kfElapsed, kfAdded, kfRead>>
    /\ UNCHANGED notKfVars

\* ffmpeg.go:407-408: case <-time.After(30 * time.Second)
Kf_Timeout ==
    /\ pcKf = "waiting"
    /\ kfElapsed = KeyframeTimeout
    /\ kfCase' = "timeout"
    /\ kfRet' = KfResult(0, ErrKeyFrameTimeout)
    /\ pcKf' = "returned"
    /\ UNCHANGED <<playlist, nSegments, kfElapsed, kfAdded, kfRead>>
    /\ UNCHANGED notKfVars

\* ffmpeg.go:409-410: case <-ctx.Done()
Kf_CtxDoneAsTimeout ==
    /\ pcKf = "waiting"
    /\ kfCase' = "ctx"
    /\ kfRet' = KfResult(0, ErrKeyFrameTimeout)
    /\ pcKf' = "returned"
    /\ UNCHANGED <<playlist, nSegments, kfElapsed, kfAdded, kfRead>>
    /\ UNCHANGED notKfVars
Kf_CtxDone ==
    /\ pcKf = "waiting"
    /\ kfCase' = "ctx"
    /\ kfRet' = KfResult(0, Nil)
    /\ pcKf' = "returned"
    /\ UNCHANGED <<playlist, nSegments, kfElapsed, kfAdded, kfRead>>
    /\ UNCHANGED notKfVars

KfNext ==
    \/ Playlist_AddSegment
    \/ Playlist_OtherEvent
    \/ Kf_Call
    \/ Kf_Tick
    \/ Kf_Event
    \/ Kf_WatcherError
    \/ Kf_Timeout
    \/ Kf_CtxDone

\* Time passes and the goroutine of WaitForKeyframe runs.
KfFairness ==
    /\ WF_vars(Kf_Tick)
    /\ WF_vars(Kf_Event)
    /\ WF_vars(Kf_Timeout)

----------------------------------------------------------------------------
(***************************************************************************)
(* Properties of WaitForKeyframe, checked under SpecKf.                    *)
(***************************************************************************)

\* The sum, in whole milliseconds, of the last n durations of segs.
RECURSIVE SumLastMs(_, _)
SumLastMs(segs, n) ==
    IF n = 0 THEN 0
    ELSE (segs[Len(segs) - n + 1] \div 1000) + SumLastMs(segs, n - 1)

\* C17: when WaitForKeyframe returns after an event and the playlist it
\* read has at least nSegments entries, it returns without error the sum,
\* in milliseconds, of the durations of the last nSegments entries.
C17_SumOfLastSegments ==
    (pcKf = "returned" /\ kfCase = "event" /\ Len(kfRead) >= nSegments
        /\ kfRet.err # "open: no such file or directory") =>
            kfRet = KfResult(SumLastMs(kfRead, nSegments), Nil)

\* C18: WaitForKeyframe returns a duration only after a segment was added to
\* the playlist since the call began.
C18_ReturnsOnlyAfterNewSegment ==
    (pcKf = "returned" /\ kfRet.err = Nil /\ kfCase = "event") => kfAdded

\* C19: ErrKeyFrameTimeout is returned, with duration 0, when 30 s have
\* passed in the select without an event, an error or a cancellation, and
\* in no other outcome; the select never waits longer than 30 s.
C19_TimeoutErrorOnlyOnTimeout ==
    /\ [](pcKf = "returned" =>
            (kfRet.err = ErrKeyFrameTimeout <=> kfCase = "timeout"))
    /\ [](kfCase = "timeout" =>
            kfRet.dur = 0 /\ kfElapsed = KeyframeTimeout /\ ~kfAdded)
    /\ (pcKf = "waiting") ~> (pcKf = "returned")

\* C19 witness: 30 s passed with no event and the timeout was returned.
C19_Witness ==
    /\ pcKf = "returned"
    /\ kfCase = "timeout"
    /\ kfElapsed = KeyframeTimeout
    /\ kfRet = KfResult(0, ErrKeyFrameTimeout)

\* C35: whenever WaitForKeyframe returns a nil error, it has received an
\* event of the playlist and the duration returned is the one computed
\* from the playlist it then read; a return caused by the cancellation of
\* ctx does not look like a wait that measured a duration.
C35_NilErrorMeansMeasured ==
    (pcKf = "returned" /\ kfRet.err = Nil) =>
        /\ kfCase = "event"
        /\ kfRet = getSegmentDuration(PlaylistLines(kfRead), nSegments)

----------------------------------------------------------------------------
(***************************************************************************)
(* The MinIO recording-saved hook: onRecSaved, ConnectMinio and Convert of *)
(* src/addons/minio/backend.go.                                            *)
(***************************************************************************)

\* Recordings saved in a run of the model.
MaxHookCalls == 4

HookInit ==
    /\ pcHook = "idle"
    /\ hookCalls = 0
    /\ minioClient = "nil"
    /\ mp4Exists = FALSE
    /\ hookFailed = {}
    /\ hookLogged = {}
    /\ uploaded = 0

\* backend.go:79-93: the recorder calls the hook for a saved recording.
Hook_Call ==
    /\ pcHook \in {"idle", "returned"}
    /\ hookCalls < MaxHookCalls
    /\ hookCalls' = hookCalls + 1
    /\ mp4Exists' = FALSE
    /\ hookFailed' = {}
    /\ hookLogged' = {}
    /\ pcHook' = IF minioClient = "nil" THEN "connect" ELSE "convert"
    /\ UNCHANGED <<minioClient, uploaded>>
    /\ UNCHANGED notHookVars

\* backend.go:144-171: ConnectMinio.  When minio.New fails the error is
\* printed and minioClient is nil, and minioClient.MakeBucket (line 157)
\* dereferences it.  Otherwise MakeBucket may fail, which is printed, and
\* the client is returned.
Hook_Connect ==
    /\ pcHook = "connect"
    /\ \/ /\ hookFailed' = hookFailed \cup {"client"}
          /\ pcHook' = "panicked"
          /\ UNCHANGED minioClient
       \/ /\ minioClient' = "client"
          /\ pcHook' = "convert"
          /\ \E bucketFails \in BOOLEAN :
                hookFailed' = IF bucketFails THEN hookFailed \cup {"bucket"}
                              ELSE hookFailed
    /\ UNCHANGED <<hookCalls, mp4Exists, hookLogged, uploaded>>
    /\ UNCHANGED notHookVars

\* backend.go:95 and 173-192: Convert(recPath); the error it returns is
\* dropped.  The mp4 file exists once OpenFile has created it.
Hook_Convert ==
    /\ pcHook = "convert"
    /\ \/ /\ mp4Exists' = TRUE
          /\ UNCHANGED hookFailed
       \/ /\ \E created \in BOOLEAN : mp4Exists' = created
          /\ hookFailed' = hookFailed \cup {"convert"}
    /\ pcHook' = "upload"
    /\ UNCHANGED <<hookCalls, minioClient, hookLogged, uploaded>>
    /\ UNCHANGED notHookVars

\* backend.go:116-128: FPutObject; an error is logged and the hook returns.
Hook_Upload ==
    /\ pcHook = "upload"
    /\ \/ /\ mp4Exists
          /\ uploaded' = uploaded + 1
          /\ pcHook' = "remove"
          /\ UNCHANGED <<hookFailed, hookLogged>>
       \/ /\ hookFailed' = hookFailed \cup {"upload"}
          /\ hookLogged' = hookLogged \cup {"upload"}
          /\ pcHook' = "returned"
          /\ UNCHANGED uploaded
    /\ UNCHANGED <<hookCalls, minioClient, mp4Exists>>
    /\ UNCHANGED notHookVars

\* backend.go:129-141: the local mp4 is removed; panic(err) when os.Remove
\* fails.
Hook_Remove ==
    /\ pcHook = "remove"
    /\ \/ /\ mp4Exists' = FALSE
          /\ pcHook' = "returned"
          /\ UNCHANGED hookFailed
       \/ /\ hookFailed' = hookFailed \cup {"remove"}
          /\ pcHook' = "panicked"
          /\ UNCHANGED mp4Exists
    /\ UNCHANGED <<hookCalls, minioClient, hookLogged, uploaded>>
    /\ UNCHANGED notHookVars

HookNext ==
    \/ Hook_Call
    \/ Hook_Connect
    \/ Hook_Convert
    \/ Hook_Upload
    \/ Hook_Remove

----------------------------------------------------------------------------
(***************************************************************************)
(* Properties of the hook, checked under SpecHook.                         *)
(***************************************************************************)

\* C20: whatever fails inside onRecSaved, the hook does not panic: it
\* returns to the recorder.
C20_HookNeverPanics ==
    pcHook # "panicked"

----------------------------------------------------------------------------
(***************************************************************************)
(* Application startup and the route table: newApp of src/nvr.go.          *)
(* The packages storage, monitor, auth and web are outside the modelled    *)
(* sources; what they do here is taken from the specification.             *)
(***************************************************************************)

\* Monitor ids the operator uses.
MonitorIds == {"m1", "m2"}

\* bundle/templ/env.yaml:19.
HomeDir == "/app"

\* Values of configDir in env.yaml; "" when the key is absent, as in
\* bundle/templ/env.yaml.
EnvConfigDirs == {"", "/data/configs"}

\* filepath.Join of two clean paths.
Join(a, b) == a \o "/" \o b

\* storage.NewConfigEnv: configDir defaults to <homeDir>/configs.
ConfigDir(envDir) == IF envDir = "" THEN Join(HomeDir, "configs") ELSE envDir

\* nvr.go:223.
cPath == Join(HomeDir, "configs/monitors")

\* nvr.go:245.
monitorConfigDir(envDir) == Join(ConfigDir(envDir), "monitors")

MonitorDirs == {monitorConfigDir(d) : d \in EnvConfigDirs} \cup {cPath}

\* nvr.go:327-356: the routes under /api, each with the wrappers applied
\* to its handler, outermost first.
Routes ==
    { [path |-> "/api/system/time-zone", wrappers |-> <<"User">>, handler |-> "TimeZone"],
      [path |-> "/api/general", wrappers |-> <<"Admin">>, handler |-> "General"],
      [path |-> "/api/general/set", wrappers |-> <<"Admin", "CSRF">>, handler |-> "GeneralSet"],
      [path |-> "/api/users", wrappers |-> <<"Admin">>, handler |-> "Users"],
      [path |-> "/api/user/set", wrappers |-> <<"Admin", "CSRF">>, handler |-> "UserSet"],
      [path |-> "/api/user/delete", wrappers |-> <<"Admin", "CSRF">>, handler |-> "UserDelete"],
      [path |-> "/api/user/my-token", wrappers |-> <<"Admin">>, handler |-> "MyToken"],
      [path |-> "/api/monitor/list", wrappers |-> <<"User">>, handler |-> "MonitorList"],
      [path |-> "/api/monitor/configs", wrappers |-> <<"Admin">>, handler |-> "MonitorConfigs"],
      [path |-> "/api/monitor/restart", wrappers |-> <<"Admin">>, handler |-> "MonitorRestart"],
      [path |-> "/api/monitor/set", wrappers |-> <<"Admin">>, handler |-> "MonitorSet"],
      [path |-> "/api/monitor/delete", wrappers |-> <<"Admin">>, handler |-> "MonitorDelete"],
      [path |-> "/api/group/configs", wrappers |-> <<"User">>, handler |-> "GroupConfigs"],
      [path |-> "/api/group/set", wrappers |-> <<"Admin", "CSRF">>, handler |-> "GroupSet"],
      [path |-> "/api/group/delete", wrappers |-> <<"Admin", "CSRF">>, handler |-> "GroupDelete"],
      [path |-> "/api/recording/delete/", wrappers |-> <<"Admin", "CSRF">>, handler |-> "RecordingDelete"],
      [path |-> "/api/recording/thumbnail/", wrappers |-> <<"User">>, handler |-> "RecordingThumbnail"],
      [path |-> "/api/recording/video/", wrappers |-> <<"User">>, handler |-> "RecordingVideo"],
      [path |-> "/api/recording/query", wrappers |-> <<"User">>, handler |-> "RecordingQuery"],
      [path |-> "/api/log/feed", wrappers |-> <<"Admin">>, handler |-> "LogFeed"],
      [path |-> "/api/log/query", wrappers |-> <<"Admin">>, handler |-> "LogQuery"],
      [path |-> "/api/log/sources", wrappers |-> <<"Admin">>, handler |-> "LogSources"] }

Roles == {"anonymous", "user", "admin"}

\* The authenticator's wrappers: User and Admin check the caller's role,
\* CSRF checks that the X-CSRF-TOKEN header matches the caller's token.
WrapperPasses(w, role, csrf) ==
    CASE w = "User" -> role \in {"user", "admin"}
      [] w = "Admin" -> role = "admin"
      [] w = "CSRF" -> csrf

\* The handler of a route runs when every wrapper around it passes.
Handled(route, role, csrf) ==
    \A i \in 1..Len(route.wrappers) : WrapperPasses(route.wrappers[i], role, csrf)

NoRequest == [handler |-> "none", role |-> "anonymous", csrf |-> FALSE, handled |-> FALSE]

AppInit ==
    /\ appPc = "down"
    /\ envConfigDir = ""
    /\ disk = [d \in MonitorDirs |-> {}]
    /\ managerConfigs = {}
    /\ filesBefore = {}
    /\ loadedAtStart = {}
    /\ lastRequest = NoRequest

\* The operator edits configDir in env.yaml while the application is down.
Env_Edit ==
    /\ appPc = "down"
    /\ \E d \in EnvConfigDirs : envConfigDir' = d
    /\ UNCHANGED <<appPc, disk, managerConfigs, filesBefore, loadedAtStart, lastRequest>>
    /\ UNCHANGED notAppVars

\* nvr.go:210-256: newApp reads env.yaml, removes <homeDir>/configs/monitors
\* (line 225) and creates the monitor manager, which loads the files of
\* <configDir>/monitors.
App_New ==
    /\ appPc = "down"
    /\ filesBefore' = disk[monitorConfigDir(envConfigDir)]
    /\ disk' = [disk EXCEPT ![cPath] = {}]
    /\ managerConfigs' = disk'[monitorConfigDir(envConfigDir)]
    /\ loadedAtStart' = disk'[monitorConfigDir(envConfigDir)]
    /\ appPc' = "up"
    /\ lastRequest' = NoRequest
    /\ UNCHANGED envConfigDir
    /\ UNCHANGED notAppVars

\* The process exits; files stay on disk.
App_Exit ==
    /\ appPc = "up"
    /\ appPc' = "down"
    /\ managerConfigs' = {}
    /\ UNCHANGED <<envConfigDir, disk, filesBefore, loadedAtStart, lastRequest>>
    /\ UNCHANGED notAppVars

\* nvr.go:327-356: a request to an /api route.  The manager's set and
\* delete operations write and remove <configDir>/monitors/<id>.json.
Api_Request ==
    /\ appPc = "up"
    /\ \E route \in Routes, role \in Roles, csrf \in BOOLEAN, id \in MonitorIds :
        LET handled == Handled(route, role, csrf)
            dir == monitorConfigDir(envConfigDir)
        IN /\ lastRequest' = [handler |-> route.handler, role |-> role,
                              csrf |-> csrf, handled |-> handled]
           /\ managerConfigs' =
                CASE handled /\ route.handler = "MonitorSet" -> managerConfigs \cup {id}
                  [] handled /\ route.handler = "MonitorDelete" -> managerConfigs \ {id}
                  [] OTHER -> managerConfigs
           /\ disk' = [disk EXCEPT ![dir] = managerConfigs']
    /\ UNCHANGED <<appPc, envConfigDir, filesBefore, loadedAtStart>>
    /\ UNCHANGED notAppVars

AppNext ==
    \/ Env_Edit
    \/ App_New
    \/ App_Exit
    \/ Api_Request

----------------------------------------------------------------------------
(***************************************************************************)
(* Properties of startup and the route table, checked under SpecApp.       *)
(***************************************************************************)

\* C21: a start of the application leaves the monitor config files that
\* were on disk before it in place, and the monitor manager loads them.
C21_ConfigsSurviveRestart ==
    appPc = "up" => loadedAtStart = filesBefore

\* The handlers that change state (the set, delete and restart endpoints).
StateChangingHandlers ==
    {"GeneralSet", "UserSet", "UserDelete", "MonitorRestart", "MonitorSet",
     "MonitorDelete", "GroupSet", "GroupDelete", "RecordingDelete"}

\* C26: a state-changing handler runs only for a request that carries a
\* matching CSRF token.
C26_StateChangeNeedsCsrf ==
    (lastRequest.handled /\ lastRequest.handler \in StateChangingHandlers)
        => lastRequest.csrf

----------------------------------------------------------------------------
(***************************************************************************)
(* Start of a monitor with the motion addon: the hooks registered by init, *)
(* onMonitorStart and modifyMainArgs of src/addons/motion/backend.go and   *)
(* MakePipe of src/pkg/ffmpeg/ffmpeg.go.  The monitor that calls the hooks *)
(* is outside the modelled sources and follows the specification: it runs  *)
(* the start hooks, then starts the main encoder with the arguments the    *)
(* start-process hooks have modified.                                      *)
(***************************************************************************)

\* Starts of the monitor in a run of the model.
MaxMonStarts == 4

\* The steps of onMonitorStart that can fail, in order.
MsSteps == <<"mkdir", "pipe", "zones", "masks", "duration">>

MsInit ==
    /\ msPc = "stopped"
    /\ msMotion = FALSE
    /\ msErr = "nil"
    /\ msLogged = {}
    /\ msPipe = FALSE
    /\ msDetector = FALSE
    /\ msMainArgs = "none"
    /\ msStarts = 0

\* The monitor starts and runs the start hook (backend.go:37-41);
\* onMonitorStart returns nil at once without motion detection (58-60).
Ms_Start ==
    /\ msPc = "stopped"
    /\ msStarts < MaxMonStarts
    /\ msStarts' = msStarts + 1
    /\ \E motion \in BOOLEAN :
        /\ msMotion' = motion
        /\ msPc' = IF motion THEN "mkdir" ELSE "hooked"
    /\ msErr' = "nil"
    /\ msLogged' = {}
    /\ UNCHANGED <<msPipe, msDetector, msMainArgs>>
    /\ UNCHANGED notMsVars

\* The position after step number i of MsSteps succeeded.
MsAfter(i) == IF i < Len(MsSteps) THEN MsSteps[i + 1] ELSE "go"

\* backend.go:37-41 with 64-89: a step of onMonitorStart fails; the error
\* is returned to the hook registered by init, which logs it.
MsFail(step) ==
    /\ msErr' = step
    /\ msLogged' = msLogged \cup {step}
    /\ msPc' = "hooked"

\* backend.go:64-66, 72-76, 78-82, 86-90: MkdirAll, unmarshalZones,
\* generateMasks and Atoi of motionDuration.
Ms_Step ==
    /\ \E i \in 1..Len(MsSteps) :
        /\ msPc = MsSteps[i]
        /\ MsSteps[i] # "pipe"
        /\ \/ MsFail(MsSteps[i])
           \/ /\ msPc' = MsAfter(i)
              /\ UNCHANGED <<msErr, msLogged>>
    /\ UNCHANGED <<msMotion, msPipe, msDetector, msMainArgs, msStarts>>
    /\ UNCHANGED notMsVars

\* backend.go:68-70 and ffmpeg.go:179-187: MakePipe removes the path and
\* calls Mkfifo.
Ms_MakePipe ==
    /\ msPc = "pipe"
    /\ \/ /\ MsFail("pipe")
          /\ msPipe' = FALSE
       \/ /\ msPipe' = TRUE
          /\ msPc' = MsAfter(2)
          /\ UNCHANGED <<msErr, msLogged>>
    /\ UNCHANGED <<msMotion, msDetector, msMainArgs, msStarts>>
    /\ UNCHANGED notMsVars

\* backend.go:92-94: go a.startDetector(detectorArgs); return nil.
Ms_GoDetector ==
    /\ msPc = "go"
    /\ msDetector' = TRUE
    /\ msPc' = "hooked"
    /\ UNCHANGED <<msMotion, msErr, msLogged, msPipe, msMainArgs, msStarts>>
    /\ UNCHANGED notMsVars

\* backend.go:42 and 45-55: the monitor starts the main encoder; the hook
\* modifyMainArgs appends the FIFO output when motion detection is on.
modifyMainArgs(motion, args) ==
    IF ~motion THEN args ELSE "fifo"

Ms_StartMain ==
    /\ msPc = "hooked"
    /\ msMainArgs' = modifyMainArgs(msMotion, "plain")
    /\ msPc' = "running"
    /\ UNCHANGED <<msMotion, msErr, msLogged, msPipe, msDetector, msStarts>>
    /\ UNCHANGED notMsVars

\* The monitor stops: its context is cancelled, encoder and detector end.
Ms_Stop ==
    /\ msPc = "running"
    /\ msPc' = "stopped"
    /\ msDetector' = FALSE
    /\ msMainArgs' = "none"
    /\ UNCHANGED <<msMotion, msErr, msLogged, msPipe, msStarts>>
    /\ UNCHANGED notMsVars

MsNext ==
    \/ Ms_Start
    \/ Ms_Step
    \/ Ms_MakePipe
    \/ Ms_GoDetector
    \/ Ms_StartMain
    \/ Ms_Stop

----------------------------------------------------------------------------
(***************************************************************************)
(* Properties of the monitor start, checked under SpecMs.                  *)
(***************************************************************************)

\* C22: when creating the motion FIFO fails, the failure is logged, no
\* detector is started and the main encoder is not started with the FIFO
\* output in its arguments.
C22_FifoFailureFailsStart ==
    msErr = "pipe" =>
        /\ "pipe" \in msLogged
        /\ ~msDetector
        /\ msMainArgs # "fifo"

----------------------------------------------------------------------------
(***************************************************************************)
(* RTSP headers: Header.read and Header.write of                           *)
(* src/pkg/video/rtsp/gortsplib/pkg/base/header.go.  A string is a         *)
(* sequence of bytes.  readBytesLimited and readNewLine are outside the    *)
(* modelled sources; they follow the limits the specification states:     *)
(* a key of up to 512 bytes and a value of up to 2048 bytes are read.      *)
(***************************************************************************)

\* header.go:14-16.
headerMaxEntryCount == 255
headerMaxKeyLength == 512
headerMaxValueLength == 2048

ErrHeaderCountExceeds == "headers count exceeds"
ErrHeaderValueMissing == "value is missing"
ErrEOF == "EOF"
ErrNewLine == "unexpected newline byte"
ErrBufferExceeds == "buffer length exceeds"

\* The bytes '\n', '\r', ' ', '-', ':', 'A', 'a' and 'v'.
ByteLF == 10
ByteCR == 13
ByteSpace == 32
ByteDash == 45
ByteColon == 58
ByteUpperA == 65
ByteLowerA == 97
ByteLowerV == 118

IsUpper(c) == c \in 65..90
IsLower(c) == c \in 97..122
ToLower(c) == IF IsUpper(c) THEN c + 32 ELSE c
ToUpper(c) == IF IsLower(c) THEN c - 32 ELSE c

\* strings.ToLower.
StrToLower(s) == [i \in 1..Len(s) |-> ToLower(s[i])]

\* net/http's valid header field bytes (token characters).
ValidHeaderFieldByte(c) ==
    c \in (48..57) \cup (65..90) \cup (97..122)
          \cup {33, 35, 36, 37, 38, 39, 42, 43, 45, 46, 94, 95, 96, 124, 126}

\* http.CanonicalHeaderKey: the first letter and every letter after a '-'
\* in upper case, the others in lower case; a key with a byte that is not
\* a token character is returned unchanged.
CanonicalHeaderKey(s) ==
    IF \E i \in 1..Len(s) : ~ValidHeaderFieldByte(s[i]) THEN s
    ELSE [i \in 1..Len(s) |->
            IF i = 1 \/ s[i - 1] = ByteDash THEN ToUpper(s[i]) ELSE ToLower(s[i])]

\* "rtp-info", "www-authenticate", "cseq" and their normalized forms.
KeyRtpInfoLower == <<114, 116, 112, 45, 105, 110, 102, 111>>
KeyRtpInfo == <<82, 84, 80, 45, 73, 110, 102, 111>>
KeyWwwAuthenticateLower ==
    <<119, 119, 119, 45, 97, 117, 116, 104, 101, 110, 116, 105, 99, 97, 116, 101>>
KeyWwwAuthenticate ==
    <<87, 87, 87, 45, 65, 117, 116, 104, 101, 110, 116, 105, 99, 97, 116, 101>>
KeyCSeqLower == <<99, 115, 101, 113>>
KeyCSeq == <<67, 83, 101, 113>>

\* The special cases are compared with the key as given, not in lower case.
headerKeyNormalizeCaseSensitive(in) ==
    CASE in = KeyRtpInfoLower -> KeyRtpInfo
      [] in = KeyWwwAuthenticateLower -> KeyWwwAuthenticate
      [] in = KeyCSeqLower -> KeyCSeq
      [] OTHER -> CanonicalHeaderKey(in)

\* header.go:19-32.
headerKeyNormalize(in) ==
    CASE StrToLower(in) = KeyRtpInfoLower -> KeyRtpInfo
      [] StrToLower(in) = KeyWwwAuthenticateLower -> KeyWwwAuthenticate
      [] StrToLower(in) = KeyCSeqLower -> KeyCSeq
      [] OTHER -> CanonicalHeaderKey(in)

\* The header without entries: make(Header).
EmptyHeader == [k \in {} |-> <<>>]

\* h[key] of a Go map: nil when the key is absent.
HeaderGet(h, key) == IF key \in DOMAIN h THEN h[key] ELSE <<>>

\* The value replaces those of the key instead of being appended.
HeaderAppendOverwrite(h, key, val) ==
    [k \in DOMAIN h \cup {key} |-> IF k = key THEN <<val>> ELSE h[k]]

\* (*h)[key] = append((*h)[key], val).
HeaderAppend(h, key, val) ==
    [k \in DOMAIN h \cup {key} |->
        IF k = key THEN Append(HeaderGet(h, key), val) ELSE h[k]]

\* Result of a read from position pos of a buffer: the error, the bytes
\* read and the position after them.
ReadResult(err, bytes, pos) == [err |-> err, bytes |-> bytes, pos |-> pos]

\* readBytesLimited(rb, delim, n): the bytes up to and including the first
\* delim, which is preceded by at most n bytes; an error when the input
\* ends or n bytes pass without it.
readBytesLimited(buf, pos, delim, n) ==
    LET ds == {i \in 0..n : pos + i <= Len(buf) /\ buf[pos + i] = delim}
    IN IF ds = {}
       THEN ReadResult(IF pos + n > Len(buf) THEN ErrEOF ELSE ErrBufferExceeds,
                       <<>>, pos)
       ELSE LET i == CHOOSE j \in ds : \A k \in ds : j <= k
            IN ReadResult(Nil, SubSeq(buf, pos, pos + i), pos + i + 1)

\* readNewLine(rb): the next byte must be '\n'.
readNewLine(buf, pos) ==
    IF pos > Len(buf) THEN ReadResult(ErrEOF, <<>>, pos)
    ELSE IF buf[pos] # ByteLF THEN ReadResult(ErrNewLine, <<>>, pos)
    ELSE ReadResult(Nil, <<>>, pos + 1)

\* The bound on the number of entries, off by one.
CountExceededOffByOne(count) == count > headerMaxEntryCount

\* header.go:63: count >= headerMaxEntryCount.
CountExceeded(count) == count >= headerMaxEntryCount

\* State of the loop of Header.read: whether it has returned, the error,
\* the entries read, the position in the input and the entry count.
HeaderLoop(returned, err, h, pos, count) ==
    [done |-> returned, err |-> err, h |-> h, pos |-> pos, count |-> count]

\* header.go:49-103: one iteration of the loop of Header.read, from
\* position pos with the entries read so far in h.
HeaderReadStep(buf, pos, h, count) ==
    IF pos > Len(buf) THEN HeaderLoop(TRUE, ErrEOF, h, pos, count)
    ELSE IF buf[pos] = ByteCR
    THEN LET nl == readNewLine(buf, pos + 1)
         IN HeaderLoop(TRUE, nl.err, h, nl.pos, count)
    ELSE IF CountExceeded(count)
    THEN HeaderLoop(TRUE, ErrHeaderCountExceeds, h, pos + 1, count)
    ELSE
    LET k == readBytesLimited(buf, pos + 1, ByteColon, headerMaxKeyLength - 1)
    IN IF k.err # Nil THEN HeaderLoop(TRUE, ErrHeaderValueMissing, h, k.pos, count)
    ELSE
    LET key == headerKeyNormalize(<<buf[pos]>> \o SubSeq(k.bytes, 1, Len(k.bytes) - 1))
        start == CHOOSE p \in k.pos..(Len(buf) + 1) :
                    /\ p = Len(buf) + 1 \/ buf[p] # ByteSpace
                    /\ \A q \in k.pos..(p - 1) : buf[q] = ByteSpace
    IN IF start > Len(buf) THEN HeaderLoop(TRUE, ErrEOF, h, start, count)
    ELSE
    LET v == readBytesLimited(buf, start, ByteCR, headerMaxValueLength)
    IN IF v.err # Nil THEN HeaderLoop(TRUE, v.err, h, v.pos, count)
    ELSE
    LET val == SubSeq(v.bytes, 1, Len(v.bytes) - 1)
        nl == readNewLine(buf, v.pos)
    IN IF nl.err # Nil THEN HeaderLoop(TRUE, nl.err, h, nl.pos, count)
    ELSE HeaderLoop(FALSE, Nil, HeaderAppend(h, key, val), nl.pos, count + 1)

\* header.go:46-47: *h = make(Header); count := 0.
HeaderReadStart(pos) == HeaderLoop(FALSE, Nil, EmptyHeader, pos, 0)

\* header.go:45-106: Header.read, the loop run to its return.
RECURSIVE HeaderReadLoop(_, _)
HeaderReadLoop(buf, st) ==
    IF st.done THEN st
    ELSE HeaderReadLoop(buf, HeaderReadStep(buf, st.pos, st.h, st.count))

HeaderRead(buf, pos) == HeaderReadLoop(buf, HeaderReadStart(pos))

\* Order of sort.Strings: bytewise lexicographic.
StrLess(a, b) ==
    \E i \in 1..(Len(a) + 1) :
        /\ i <= Len(b)
        /\ \A j \in 1..(i - 1) : a[j] = b[j]
        /\ (i = Len(a) + 1 \/ a[i] < b[i])

\* sort.Strings of a set of distinct strings.
RECURSIVE SortStrings(_)
SortStrings(S) ==
    IF S = {} THEN <<>>
    ELSE LET m == CHOOSE a \in S : \A b \in S \ {a} : StrLess(a, b)
         IN <<m>> \o SortStrings(S \ {m})

\* header.go:111-116: keys is made with len(h) empty strings and the keys
\* of h are appended to it; sorted, the empty strings come first.
HeaderWriteKeys(h) ==
    LET empties == Cardinality(DOMAIN h) + (IF <<>> \in DOMAIN h THEN 1 ELSE 0)
    IN [i \in 1..empties |-> <<>>] \o SortStrings(DOMAIN h \ {<<>>})

\* key + ": " + val + "\r\n"
HeaderLine(key, val) == key \o <<ByteColon, ByteSpace>> \o val \o <<ByteCR, ByteLF>>

\* The concatenation of the strings ss[lo], ..., ss[hi].
RECURSIVE ConcatRange(_, _, _)
ConcatRange(ss, lo, hi) ==
    IF lo > hi THEN <<>>
    ELSE IF lo = hi THEN ss[lo]
    ELSE LET mid == (lo + hi) \div 2
         IN ConcatRange(ss, lo, mid) \o ConcatRange(ss, mid + 1, hi)

\* header.go:118-122: the lines of one key, one for each of its values.
HeaderWriteValues(key, vals) ==
    ConcatRange([i \in 1..Len(vals) |-> HeaderLine(key, vals[i])], 1, Len(vals))

\* header.go:108-124: Header.write.
HeaderWrite(h) ==
    LET keys == HeaderWriteKeys(h)
    IN ConcatRange([i \in 1..Len(keys) |-> HeaderWriteValues(keys[i], HeaderGet(h, keys[i]))],
                   1, Len(keys))
       \o <<ByteCR, ByteLF>>

\* Keys and values of the headers written: "Aaa..." and "vvv..." of a given
\* length, "CSeq", "Cseq" (not normalized), the empty key, " v".
KeyOfLen(n) == [i \in 1..n |-> IF i = 1 THEN ByteUpperA ELSE ByteLowerA]
ValOfLen(n) == [i \in 1..n |-> ByteLowerV]
KeyCseq == <<67, 115, 101, 113>>
ValLeadingSpace == <<ByteSpace, ByteLowerV>>

KeyLens == {1, 2, headerMaxKeyLength - 1, headerMaxKeyLength, headerMaxKeyLength + 1}
ValLens == {0, 1, headerMaxValueLength - 1, headerMaxValueLength, headerMaxValueLength + 1}
EntryCounts == {0, 2, headerMaxEntryCount - 1, headerMaxEntryCount, headerMaxEntryCount + 1}

HeaderKeys == {KeyOfLen(n) : n \in KeyLens} \cup {KeyCSeq, KeyCseq, <<>>}

\* Keys in several spellings: "CSEQ", "WWW-authenticate", "Rtp-Info", "aA",
\* and "a b" and "A b", which hold a byte that is no token character.
KeyCSEQ == <<67, 83, 69, 81>>
KeyWwwAuthenticateMixed ==
    <<87, 87, 87, 45, 97, 117, 116, 104, 101, 110, 116, 105, 99, 97, 116, 101>>
KeyRtpInfoMixed == <<82, 116, 112, 45, 73, 110, 102, 111>>
KeyLowerUpper == <<ByteLowerA, ByteUpperA>>
KeySpaceLower == <<ByteLowerA, ByteSpace, 98>>
KeySpaceUpper == <<ByteUpperA, ByteSpace, 98>>
CaseKeys ==
    {KeyCSeqLower, KeyCSEQ, KeyCSeq, KeyCseq, KeyWwwAuthenticateLower,
     KeyWwwAuthenticateMixed, KeyRtpInfoLower, KeyRtpInfoMixed, KeyOfLen(2),
     KeyLowerUpper, KeySpaceLower, KeySpaceUpper}
HeaderVals == {ValOfLen(n) : n \in ValLens} \cup {ValLeadingSpace}

\* The headers written: one entry; one key with many values; two keys.
HeaderInputs ==
    {EmptyHeader}
    \cup {HeaderAppend(EmptyHeader, k, v) : k \in HeaderKeys, v \in HeaderVals}
    \cup {[k \in {KeyOfLen(1)} |-> [i \in 1..n |-> ValOfLen(1)]] : n \in EntryCounts}
    \cup {[k \in {KeyOfLen(1)} |-> <<v1, v2>>] : v1, v2 \in {ValOfLen(1), ValOfLen(2)}}
    \cup {[k \in {KeyOfLen(1), KeyOfLen(2)} |->
            IF k = KeyOfLen(1) THEN [i \in 1..n |-> ValOfLen(1)] ELSE <<v>>]
          : n \in EntryCounts \ {0}, v \in {ValOfLen(1), ValOfLen(2)}}
    \cup {[k \in {k1, k2} |->
            IF k = k1 THEN <<ValOfLen(1)>> ELSE <<ValOfLen(2), ValOfLen(1)>>]
          : k1, k2 \in CaseKeys}

HdrInit ==
    /\ hdrPc = "idle"
    /\ hdrIn = EmptyHeader
    /\ hdrBuf = <<>>
    /\ hdrOut = HeaderReadStart(1)

\* A header map is built by the caller.
Hdr_Make ==
    /\ hdrPc \in {"idle", "read"}
    /\ \E h \in HeaderInputs : hdrIn' = h
    /\ hdrBuf' = <<>>
    /\ hdrOut' = HeaderReadStart(1)
    /\ hdrPc' = "made"
    /\ UNCHANGED notHdrVars

\* header.go:108-124.
Hdr_Write ==
    /\ hdrPc = "made"
    /\ hdrBuf' = HeaderWrite(hdrIn)
    /\ hdrPc' = "written"
    /\ UNCHANGED <<hdrIn, hdrOut>>
    /\ UNCHANGED notHdrVars

\* header.go:45-106: Header.read on the bytes written, one iteration of
\* its loop at a time.
Hdr_Read ==
    /\ hdrPc \in {"written", "reading"}
    /\ \E buf \in {hdrBuf} :
        hdrOut' = HeaderReadStep(buf, hdrOut.pos, hdrOut.h, hdrOut.count)
    /\ hdrPc' = IF hdrOut'.done THEN "read" ELSE "reading"
    /\ UNCHANGED <<hdrIn, hdrBuf>>
    /\ UNCHANGED notHdrVars

HdrNext ==
    \/ Hdr_Make
    \/ Hdr_Write
    \/ Hdr_Read

----------------------------------------------------------------------------
(***************************************************************************)
(* Properties of the RTSP header, checked under SpecHdr.                   *)
(***************************************************************************)

\* The values of a header, over all its keys.
HeaderValues(h) == UNION {{h[k][i] : i \in 1..Len(h[k])} : k \in DOMAIN h}

\* Number of values of a header, over all its keys.
RECURSIVE HeaderValueCountOf(_, _)
HeaderValueCountOf(h, keys) ==
    IF keys = {} THEN 0
    ELSE LET k == CHOOSE x \in keys : TRUE
         IN Len(h[k]) + HeaderValueCountOf(h, keys \ {k})

HeaderValueCount(h) == HeaderValueCountOf(h, DOMAIN h)

\* Header.read returned without error the header that was written.
ReadBackEqual ==
    /\ hdrOut.err = Nil
    /\ hdrOut.h = hdrIn

\* C23 as stated: every header map with at most 255 entries, normalized
\* keys and values within the length bound is read back as written.
C23_RoundTrip ==
    (/\ hdrPc = "read"
     /\ Cardinality(DOMAIN hdrIn) <= headerMaxEntryCount
     /\ \A k \in DOMAIN hdrIn : headerKeyNormalize(k) = k
     /\ \A v \in HeaderValues(hdrIn) : Len(v) <= headerMaxValueLength)
        => ReadBackEqual

\* A header that Header.write serializes unambiguously: at most 255
\* values in all, at least one value for each key, keys of 1 to 512 token
\* bytes in normalized form, values of at most 2048 bytes that do not
\* begin with a space and contain no line break.
WellFormedHeader(h) ==
    /\ HeaderValueCount(h) <= headerMaxEntryCount
    /\ \A k \in DOMAIN h :
        /\ Len(k) \in 1..headerMaxKeyLength
        /\ \A i \in 1..Len(k) : ValidHeaderFieldByte(k[i])
        /\ headerKeyNormalize(k) = k
        /\ h[k] # <<>>
    /\ \A v \in HeaderValues(h) :
        /\ Len(v) <= headerMaxValueLength
        /\ v = <<>> \/ v[1] # ByteSpace
        /\ \A i \in 1..Len(v) : v[i] \notin {ByteCR, ByteLF}

\* C23, amended: every well-formed header is read back as written, the
\* values of each key in their order, and the read consumes exactly the
\* bytes written.
C23_RoundTripWellFormed ==
    (hdrPc = "read" /\ WellFormedHeader(hdrIn))
        => (ReadBackEqual /\ hdrOut.pos = Len(hdrBuf) + 1)

\* A header of two keys and 255 values, two of them different values of
\* one key, was read back.
C23_Witness ==
    /\ hdrPc = "read"
    /\ WellFormedHeader(hdrIn)
    /\ Cardinality(DOMAIN hdrIn) = 2
    /\ HeaderValueCount(hdrIn) = headerMaxEntryCount
    /\ ReadBackEqual

\* The longest key and the longest value of a header.
MaxKeyLen(h) ==
    IF DOMAIN h = {} THEN 0
    ELSE CHOOSE n \in {Len(k) : k \in DOMAIN h} : \A k \in DOMAIN h : Len(k) <= n

MaxValLen(h) ==
    IF HeaderValues(h) = {} THEN 0
    ELSE CHOOSE n \in {Len(v) : v \in HeaderValues(h)} :
            \A v \in HeaderValues(h) : Len(v) <= n

\* The headers whose keys are "Aaa..." and whose values are "vvv...".
PlainHeader(h) ==
    /\ \A k \in DOMAIN h : k = KeyOfLen(Len(k)) /\ Len(k) >= 1 /\ h[k] # <<>>
    /\ \A v \in HeaderValues(h) : v = ValOfLen(Len(v))

SerializableHeader(h) ==
    /\ HeaderValueCount(h) <= headerMaxEntryCount
    /\ \A k \in DOMAIN h :
        /\ Len(k) \in 1..headerMaxKeyLength
        /\ \A i \in 1..Len(k) : k[i] \notin {ByteCR, ByteLF, ByteColon}
        /\ h[k] # <<>>
    /\ \A v \in HeaderValues(h) :
        /\ Len(v) <= headerMaxValueLength
        /\ v = <<>> \/ v[1] # ByteSpace
        /\ \A i \in 1..Len(v) : v[i] \notin {ByteCR, ByteLF}

\* The values that arrive for the normalized key nk, in the order of the
\* lines written for h.
ArrivedFor(h, nk) ==
    LET keys == HeaderWriteKeys(h)
    IN ConcatRange([i \in 1..Len(keys) |->
                      IF headerKeyNormalize(keys[i]) = nk
                      THEN HeaderGet(h, keys[i]) ELSE <<>>], 1, Len(keys))

\* headerKeyNormalize is idempotent on the keys of h.
NormalizeIdempotent(h) ==
    \A k \in DOMAIN h :
        headerKeyNormalize(headerKeyNormalize(k)) = headerKeyNormalize(k)

\* The three special keys of h, in any letter case, take their fixed form.
NormalizeSpecialCases(h) ==
    \A k \in DOMAIN h :
        /\ StrToLower(k) = KeyCSeqLower => headerKeyNormalize(k) = KeyCSeq
        /\ StrToLower(k) = KeyWwwAuthenticateLower
              => headerKeyNormalize(k) = KeyWwwAuthenticate
        /\ StrToLower(k) = KeyRtpInfoLower => headerKeyNormalize(k) = KeyRtpInfo

\* Header.read stored the values of the lines written for h under their
\* normalized keys, in arrival order.
StoredUnderNormalizedKey(h) ==
    /\ hdrOut.err = Nil
    /\ DOMAIN hdrOut.h = {headerKeyNormalize(k) : k \in DOMAIN h}
    /\ \A nk \in DOMAIN hdrOut.h : hdrOut.h[nk] = ArrivedFor(h, nk)

\* C31 as stated: normalization is idempotent, any two keys that differ
\* only in letter case normalize to the same key, the three special keys
\* take their fixed form, and Header.read stores the values of such keys
\* under the one normalized key in arrival order.
C31_NormalizeIdempotentCaseInsensitive ==
    (hdrPc = "read" /\ SerializableHeader(hdrIn)) =>
        /\ NormalizeIdempotent(hdrIn)
        /\ NormalizeSpecialCases(hdrIn)
        /\ \A k1, k2 \in DOMAIN hdrIn :
              StrToLower(k1) = StrToLower(k2)
                  => headerKeyNormalize(k1) = headerKeyNormalize(k2)
        /\ StoredUnderNormalizedKey(hdrIn)

\* The key consists of token characters.
TokenKey(k) == \A i \in 1..Len(k) : ValidHeaderFieldByte(k[i])

\* C31, amended: normalization is idempotent for every key; keys of token
\* characters that differ only in letter case normalize to the same key,
\* the three special keys to CSeq, WWW-Authenticate and RTP-Info; and
\* Header.read stores the values under the normalized key in arrival
\* order.  A key with a byte that is no token character keeps its case.
C31_NormalizeTokenKeys ==
    (hdrPc = "read" /\ SerializableHeader(hdrIn)) =>
        /\ NormalizeIdempotent(hdrIn)
        /\ NormalizeSpecialCases(hdrIn)
        /\ \A k1, k2 \in DOMAIN hdrIn :
              (TokenKey(k1) /\ StrToLower(k1) = StrToLower(k2))
                  => headerKeyNormalize(k1) = headerKeyNormalize(k2)
        /\ StoredUnderNormalizedKey(hdrIn)

\* "CSEQ: v" and "cseq: vv", "v" were read into the one key CSeq with the
\* three values in arrival order.
C31_Witness ==
    /\ hdrPc = "read"
    /\ DOMAIN hdrIn = {KeyCSEQ, KeyCSeqLower}
    /\ hdrIn[KeyCSEQ] = <<ValOfLen(1)>>
    /\ DOMAIN hdrOut.h = {KeyCSeq}
    /\ hdrOut.h[KeyCSeq] = <<ValOfLen(1), ValOfLen(2), ValOfLen(1)>>

----------------------------------------------------------------------------
(***************************************************************************)
(* RTSP requests: Request.Read, Request.ReadIgnoreFrames and Request.Write *)
(* of src/pkg/video/rtsp/gortsplib/pkg/base/request.go.  ParseURL, the     *)
(* body reader, InterleavedFrame and ReadInterleavedFrameOrRequest are     *)
(* outside the modelled sources and follow the specification: a body is    *)
(* sized by Content-Length and an interleaved frame is                     *)
(* $<channel><len16><payload>.                                             *)
(***************************************************************************)

\* Interleaved frames before the request.
MaxFrames == 2

\* len(buf) of the buffer handed to ReadIgnoreFrames.
BufLen == 3

\* request.go:12-17.
requestMaxMethodLength == 64
requestMaxURLLength == 2048
requestMaxProtocolLength == 64

\* "RTSP/1.0".
rtspProtocol10 == <<82, 84, 83, 80, 47, 49, 46, 48>>

ErrReqEmptyMethod == "empty method"
ErrReqInvalidURL == "invalid URL"
ErrReqUnexpectedProtocol == "unexpected protocol"
ErrPayloadSize == "payload size greater than maximum allowed"
ErrInvalidContentLength == "invalid Content-Length"

\* The bytes '$', '0' and 'O'.
ByteDollar == 36
ByteZero == 48
ByteUpperO == 79

\* "OPTIONS", "PLAY", "rtsp://h", "rtsp://", "Content-Length", "1", "ab".
MethodOptions == <<79, 80, 84, 73, 79, 78, 83>>
MethodPlay == <<80, 76, 65, 89>>
UrlRtspH == <<114, 116, 115, 112, 58, 47, 47, 104>>
RtspScheme == <<114, 116, 115, 112, 58, 47, 47>>
KeyContentLength == <<67, 111, 110, 116, 101, 110, 116, 45, 76, 101, 110, 103, 116, 104>>
ValOne == <<49>>
BodyAb == <<97, 98>>

\* A request: method, URL, header and body.
Request(method, url, header, body) ==
    [Method |-> method, URL |-> url, Header |-> header, Body |-> body]

NoRequestRead == Request(<<>>, <<>>, EmptyHeader, <<>>)

\* strconv.FormatInt(n, 10) and strconv.ParseInt for 0 <= n < 100.
FormatInt(n) ==
    IF n < 10 THEN <<ByteZero + n>>
    ELSE <<ByteZero + (n \div 10), ByteZero + (n % 10)>>

IsNumber(s) == Len(s) \in 1..2 /\ \A i \in 1..Len(s) : s[i] \in ByteZero..(ByteZero + 9)

ParseInt(s) ==
    IF Len(s) = 1 THEN s[1] - ByteZero
    ELSE (s[1] - ByteZero) * 10 + (s[2] - ByteZero)

\* ParseURL accepts the URLs of the rtsp scheme.
ParseURLOk(raw) ==
    Len(raw) >= Len(RtspScheme) /\ SubSeq(raw, 1, Len(RtspScheme)) = RtspScheme

\* Result of reading a request: the error, the request and the position
\* after it.
RequestResult(err, req, pos) == [err |-> err, req |-> req, pos |-> pos]

\* The body reader: Content-Length bytes, none without the header.
BodyRead(buf, pos, header) ==
    IF KeyContentLength \notin DOMAIN header \/ Len(header[KeyContentLength]) # 1
    THEN ReadResult(Nil, <<>>, pos)
    ELSE IF ~IsNumber(header[KeyContentLength][1])
    THEN ReadResult(ErrInvalidContentLength, <<>>, pos)
    ELSE LET n == ParseInt(header[KeyContentLength][1])
         IN IF pos + n - 1 > Len(buf) THEN ReadResult(ErrEOF, <<>>, Len(buf) + 1)
            ELSE ReadResult(Nil, SubSeq(buf, pos, pos + n - 1), pos + n)

\* request.go:58-109: Request.Read from position pos.
RequestRead(buf, pos) ==
    LET m == readBytesLimited(buf, pos, ByteSpace, requestMaxMethodLength)
    IN IF m.err # Nil THEN RequestResult(m.err, NoRequestRead, m.pos)
    ELSE
    LET method == SubSeq(m.bytes, 1, Len(m.bytes) - 1)
    IN IF method = <<>> THEN RequestResult(ErrReqEmptyMethod, NoRequestRead, m.pos)
    ELSE
    LET u == readBytesLimited(buf, m.pos, ByteSpace, requestMaxURLLength)
    IN IF u.err # Nil THEN RequestResult(u.err, NoRequestRead, u.pos)
    ELSE
    LET rawURL == SubSeq(u.bytes, 1, Len(u.bytes) - 1)
    IN IF ~ParseURLOk(rawURL) THEN RequestResult(ErrReqInvalidURL, NoRequestRead, u.pos)
    ELSE
    LET p == readBytesLimited(buf, u.pos, ByteCR, requestMaxProtocolLength)
    IN IF p.err # Nil THEN RequestResult(p.err, NoRequestRead, p.pos)
    ELSE IF SubSeq(p.bytes, 1, Len(p.bytes) - 1) # rtspProtocol10
    THEN RequestResult(ErrReqUnexpectedProtocol, NoRequestRead, p.pos)
    ELSE
    LET nl == readNewLine(buf, p.pos)
    IN IF nl.err # Nil THEN RequestResult(nl.err, NoRequestRead, nl.pos)
    ELSE
    LET h == HeaderRead(buf, nl.pos)
    IN IF h.err # Nil THEN RequestResult(h.err, NoRequestRead, h.pos)
    ELSE
    LET b == BodyRead(buf, h.pos, h.h)
    IN IF b.err # Nil THEN RequestResult(b.err, NoRequestRead, b.pos)
    ELSE RequestResult(Nil, Request(method, rawURL, h.h, b.bytes), b.pos)

\* request.go:132-147: Request.Write; Content-Length is set when there is
\* a body.
RequestWrite(req) ==
    LET header == IF req.Body = <<>> THEN req.Header
                  ELSE [k \in DOMAIN req.Header \cup {KeyContentLength} |->
                            IF k = KeyContentLength THEN <<FormatInt(Len(req.Body))>>
                            ELSE req.Header[k]]
    IN req.Method \o <<ByteSpace>> \o req.URL \o <<ByteSpace>> \o rtspProtocol10
        \o <<ByteCR, ByteLF>> \o HeaderWrite(header) \o req.Body

\* An interleaved frame on the wire: '$', channel, length in 16 bits,
\* payload.
FrameBytes(channel, payload) ==
    <<ByteDollar, channel, Len(payload) \div 256, Len(payload) % 256>> \o payload

\* InterleavedFrame.Read with a payload buffer of payloadLen bytes: the
\* error, the length of the payload read and the position after the frame.
FrameResult(err, len, pos) == [err |-> err, len |-> len, pos |-> pos]

FrameRead(buf, pos, payloadLen) ==
    IF pos + 3 > Len(buf) THEN FrameResult(ErrEOF, payloadLen, Len(buf) + 1)
    ELSE LET framelen == buf[pos + 2] * 256 + buf[pos + 3]
         IN IF framelen > payloadLen THEN FrameResult(ErrPayloadSize, payloadLen, pos + 4)
            ELSE IF pos + 3 + framelen > Len(buf)
            THEN FrameResult(ErrEOF, framelen, Len(buf) + 1)
            ELSE FrameResult(Nil, framelen, pos + 4 + framelen)

\* The payload is left as the previous frame cut it.
PayloadNotReset(payloadLen, buflen) == payloadLen

\* request.go:120: f.Payload = f.Payload[:buflen].
PayloadReset(payloadLen, buflen) == buflen

\* The inputs: requests, frames, and what may follow the request.
RequestInputs ==
    { Request(MethodOptions, UrlRtspH, HeaderAppend(EmptyHeader, KeyCSeq, ValOne), <<>>),
      Request(MethodPlay, UrlRtspH, EmptyHeader, <<>>),
      Request(MethodPlay, UrlRtspH, HeaderAppend(EmptyHeader, KeyCSeq, ValOne), BodyAb) }

PayloadLens == {0, 1, BufLen, BufLen + 1}

FrameInputs ==
    {[i \in 1..n |-> c] : n \in PayloadLens, c \in {ByteDollar, ByteUpperO}}

FrameSeqs == UNION {[1..k -> FrameInputs] : k \in 0..MaxFrames}

TailInputs == {<<>>, <<ByteDollar>>}

\* The bytes of the frames, each on channel 0.
FramesBytes(frames) ==
    ConcatRange([i \in 1..Len(frames) |-> FrameBytes(0, frames[i])], 1, Len(frames))

RifInit ==
    /\ rifPc = "idle"
    /\ rifIn = <<>>
    /\ rifFrames = <<>>
    /\ rifSent = NoRequestRead
    /\ rifPos = 1
    /\ rifPayloadLen = BufLen
    /\ rifLensAtRead = {}
    /\ rifSkipped = 0
    /\ rifReq = NoRequestRead
    /\ rifErr = Nil

\* request.go:113-117: ReadIgnoreFrames is called on a connection that
\* carries frames, a request and what follows it.
Rif_Call ==
    /\ rifPc = "idle"
    /\ \E frames \in FrameSeqs, req \in RequestInputs, tail \in TailInputs :
        /\ rifFrames' = frames
        /\ rifSent' = req
        /\ rifIn' = FramesBytes(frames) \o RequestWrite(req) \o tail
    /\ rifPos' = 1
    /\ rifPayloadLen' = BufLen
    /\ rifLensAtRead' = {}
    /\ rifSkipped' = 0
    /\ rifReq' = NoRequestRead
    /\ rifErr' = Nil
    /\ rifPc' = "loop"
    /\ UNCHANGED notRifVars

\* request.go:119-129: one iteration of the loop: the payload is reset,
\* ReadInterleavedFrameOrRequest reads a frame when the next byte is '$'
\* and a request otherwise.
Rif_Iterate ==
    /\ rifPc = "loop"
    /\ \E buf \in {rifIn}, payloadLen \in {PayloadReset(rifPayloadLen, BufLen)} :
        /\ rifLensAtRead' = rifLensAtRead \cup {payloadLen}
        /\ IF rifPos > Len(buf)
           THEN /\ rifErr' = ErrEOF
                /\ rifPc' = "returned"
                /\ rifPayloadLen' = payloadLen
                /\ UNCHANGED <<rifPos, rifSkipped, rifReq>>
           ELSE IF buf[rifPos] = ByteDollar
           THEN \E f \in {FrameRead(buf, rifPos, payloadLen)} :
                /\ rifErr' = f.err
                /\ rifPayloadLen' = f.len
                /\ rifPos' = f.pos
                /\ rifSkipped' = IF f.err = Nil THEN rifSkipped + 1 ELSE rifSkipped
                /\ rifPc' = IF f.err = Nil THEN "loop" ELSE "returned"
                /\ UNCHANGED rifReq
           ELSE \E r \in {RequestRead(buf, rifPos)} :
                /\ rifErr' = r.err
                /\ rifReq' = r.req
                /\ rifPos' = r.pos
                /\ rifPc' = "returned"
                /\ rifPayloadLen' = payloadLen
                /\ UNCHANGED rifSkipped
    /\ UNCHANGED <<rifIn, rifFrames, rifSent>>
    /\ UNCHANGED notRifVars

\* The caller takes the result; the connection is used for the next call.
Rif_Done ==
    /\ rifPc = "returned"
    /\ rifPc' = "idle"
    /\ rifIn' = <<>>
    /\ rifFrames' = <<>>
    /\ rifSent' = NoRequestRead
    /\ rifPos' = 1
    /\ rifPayloadLen' = BufLen
    /\ rifLensAtRead' = {}
    /\ rifSkipped' = 0
    /\ rifReq' = NoRequestRead
    /\ rifErr' = Nil
    /\ UNCHANGED notRifVars

RifNext ==
    \/ Rif_Call
    \/ Rif_Iterate
    \/ Rif_Done

----------------------------------------------------------------------------
(***************************************************************************)
(* Properties of ReadIgnoreFrames, checked under SpecRif.                  *)
(***************************************************************************)

\* Every frame before the request fits the buffer.
FramesFit == \A i \in 1..Len(rifFrames) : Len(rifFrames[i]) <= BufLen

\* The request as Request.Read returns it: with the Content-Length header
\* that Request.Write added.
SentAsRead ==
    IF rifSent.Body = <<>> THEN rifSent
    ELSE Request(rifSent.Method, rifSent.URL,
                 [k \in DOMAIN rifSent.Header \cup {KeyContentLength} |->
                     IF k = KeyContentLength THEN <<FormatInt(Len(rifSent.Body))>>
                     ELSE rifSent.Header[k]],
                 rifSent.Body)

\* C24: on frames that fit the buffer followed by a valid request,
\* ReadIgnoreFrames returns nil with that request, having skipped every
\* frame and consumed the frames and the request and nothing more; every
\* read is made with the payload at its full length; it terminates, as
\* every iteration that does not return advances in the finite input.
C24_SkipsFramesAndResyncs ==
    /\ [](rifPc = "returned" /\ FramesFit =>
            /\ rifErr = Nil
            /\ rifReq = SentAsRead
            /\ rifSkipped = Len(rifFrames)
            /\ rifPos = Len(FramesBytes(rifFrames) \o RequestWrite(rifSent)) + 1)
    /\ [](rifLensAtRead \subseteq {BufLen})
    /\ [][rifPc = "loop" /\ rifPc' = "loop" =>
            rifPos' > rifPos /\ rifPos' <= Len(rifIn) + 1]_vars

\* A short frame, then a frame that fills the buffer, then a request with
\* a body and a byte after it: the request was returned.
C24_Witness ==
    /\ rifPc = "returned"
    /\ Len(rifFrames) = 2
    /\ Len(rifFrames[1]) < BufLen
    /\ Len(rifFrames[2]) = BufLen
    /\ rifSent.Body # <<>>
    /\ Len(rifIn) > rifPos - 1
    /\ rifErr = Nil
    /\ rifReq = SentAsRead

----------------------------------------------------------------------------
(***************************************************************************)
(* ADTS decoding: DecodeADTS of                                            *)
(* src/pkg/video/rtsp/gortsplib/pkg/aac/adts.go.  The tables sampleRates   *)
(* and channelCounts and the audio type constant are in a file of the      *)
(* package outside the modelled sources; they carry the MPEG-4 values.     *)
(***************************************************************************)

\* Valid frames in the stream before the last frame.
MaxAdtsPrefix == 2

ErrADTSdecodeLengthInvalid == "invalid length"
ErrADTSdecodeSyncwordInvalid == "invalid syncword"
ErrADTSdecodeCRCunsupported == "CRC is not supported"
ErrADTSdecodeTypeUnsupported == "unsupported audio type"
ErrADTSdecodeSampleRateInvalid == "invalid sample rate index"
ErrADTSdecodeChannelInvalid == "invalid channel configuration"
ErrADTSdecodeMultipleFramesUnsupported == "multiple frame count not supported"
ErrADTSdecodeFrameLengthInvalid == "invalid frame length"

MPEG4AudioTypeAACLC == 2

sampleRates ==
    <<96000, 88200, 64000, 48000, 44100, 32000, 24000, 22050, 16000, 12000,
      11025, 8000, 7350>>

channelCounts == <<1, 2, 3, 4, 5, 6, 8>>

\* adts.go:24-29.
ADTSPacket(type, sampleRate, channelCount, au) ==
    [Type |-> type, SampleRate |-> sampleRate, ChannelCount |-> channelCount,
     AU |-> au]

\* What DecodeADTS produces: packets and error, or a run-time panic.
AdtsResult(pkts, err) == [pkts |-> pkts, err |-> err, panicked |-> FALSE]
AdtsPanic == [pkts |-> <<>>, err |-> Nil, panicked |-> TRUE]

\* The packets decoded so far are returned with the error.
AdtsErrorKeepPackets(ret, err) == AdtsResult(ret, err)

\* return nil, err.
AdtsError(ret, err) == AdtsResult(<<>>, err)

\* adts.go:37-107: the loop of DecodeADTS on the bytes left, with the
\* packets decoded so far in ret.  byts[i] of the code is byts[i + 1] here.
RECURSIVE DecodeADTSLoop(_, _)
DecodeADTSLoop(byts, ret) ==
    LET bl == Len(byts)
    IN IF bl = 0 THEN AdtsResult(ret, Nil)
    ELSE IF bl < 8 THEN AdtsError(ret, ErrADTSdecodeLengthInvalid)
    ELSE
    LET syncWord == byts[1] * 16 + (byts[2] \div 16)
        protectionAbsent == byts[2] % 2
        type == (byts[3] \div 64) + 1
        sampleRateIndex == (byts[3] \div 4) % 16
        channelConfig == (byts[3] % 2) * 4 + ((byts[4] \div 64) % 4)
        frameLen == ((byts[4] % 4) * 2048 + byts[5] * 8 + ((byts[6] \div 32) % 8)) - 7
        frameCount == byts[7] % 4
    IN IF syncWord # 4095 THEN AdtsError(ret, ErrADTSdecodeSyncwordInvalid)
    ELSE IF protectionAbsent # 1 THEN AdtsError(ret, ErrADTSdecodeCRCunsupported)
    ELSE IF type # MPEG4AudioTypeAACLC THEN AdtsError(ret, ErrADTSdecodeTypeUnsupported)
    ELSE IF sampleRateIndex > 12 THEN AdtsError(ret, ErrADTSdecodeSampleRateInvalid)
    ELSE IF ~(channelConfig >= 1 /\ channelConfig <= 7)
    THEN AdtsError(ret, ErrADTSdecodeChannelInvalid)
    ELSE IF frameCount # 0 THEN AdtsError(ret, ErrADTSdecodeMultipleFramesUnsupported)
    ELSE IF bl - 7 < frameLen THEN AdtsError(ret, ErrADTSdecodeFrameLengthInvalid)
    ELSE IF frameLen < 0 THEN AdtsPanic
    ELSE DecodeADTSLoop(
            SubSeq(byts, 7 + frameLen + 1, bl),
            Append(ret, ADTSPacket(type, sampleRates[sampleRateIndex + 1],
                                   channelCounts[channelConfig],
                                   SubSeq(byts, 8, 7 + frameLen))))

\* adts.go:31-110.
DecodeADTS(byts) == DecodeADTSLoop(byts, <<>>)

\* The fields of a frame: syncword, protection_absent, profile (type - 1),
\* sample rate index, channel configuration, the 13-bit length field, the
\* frame count field and the access unit.
AdtsFrame(sync, pa, profile, sri, chan, len, count, au) ==
    [sync |-> sync, pa |-> pa, profile |-> profile, sri |-> sri, chan |-> chan,
     len |-> len, count |-> count, au |-> au]

\* The bytes of a frame, laid out as adts.go:155-162 does, buffer fullness
\* 0x7FF.
AdtsFrameBytes(f) ==
    << f.sync \div 16,
       (f.sync % 16) * 16 + f.pa,
       f.profile * 64 + f.sri * 4 + ((f.chan \div 4) % 2),
       (f.chan % 4) * 64 + ((f.len \div 2048) % 4),
       (f.len \div 8) % 256,
       (f.len % 8) * 32 + 31,
       63 * 4 + f.count >> \o f.au

\* Access units of 0, 1 and 2 bytes.
AdtsAUs == {<<>>, <<170>>, <<170, 187>>}

\* A frame that DecodeADTS accepts: AAC-LC, 44100 Hz, two channels.
ValidAdtsFrame(au) == AdtsFrame(4095, 1, 1, 4, 2, Len(au) + 7, 0, au)

\* The last frame of a stream: each field valid or not.
LastAdtsFrames ==
    { AdtsFrame(sync, pa, profile, sri, chan, len, count, au) :
        sync \in {4095, 4094}, pa \in {0, 1}, profile \in {0, 1},
        sri \in {4, 13}, chan \in {0, 2}, count \in {0, 1},
        au \in AdtsAUs \ {<<>>}, len \in {0, 8, 9, 10} }

\* Packets encoded in a stream, and the access units of the lengths at
\* which the encoding changes: none, the shortest, the longest that the
\* 13-bit length field holds with the 7 header bytes, and one byte more.
MaxAdtsPkts == 2
MaxFrameLen == 8191
AUOfLen(n) == [i \in 1..n |-> 170]
AdtsAULens == {0, 1, 2, MaxFrameLen - 7, MaxFrameLen - 6}
AdtsPackets ==
    { ADTSPacket(MPEG4AudioTypeAACLC, rate, count, AUOfLen(n)) :
        rate \in {44100, 7350}, count \in {2, 8}, n \in AdtsAULens }
AdtsPacketLists == UNION {[1..n -> AdtsPackets] : n \in 0..MaxAdtsPkts}

\* The position of v in the table, from 0, or -1 (adts.go:123-130, 137-144).
IndexIn(table, v) ==
    IF \E i \in 1..Len(table) : table[i] = v
    THEN (CHOOSE i \in 1..Len(table) : table[i] = v) - 1
    ELSE -1

ErrADTSencodeSampleRateInvalid == "invalid sample rate"
ErrADTSencodeChannelCountInvalid == "invalid channel count"

\* adts.go:159-161: the parts of header[3], header[4] and header[5] that
\* carry the frame length: bits 12-11, 10-3 and 2-0 of frameLen.
AdtsHeaderLength(frameLen) ==
    <<(frameLen \div 2048) % 4, (frameLen \div 8) % 256, (frameLen % 8) * 32>>

\* adts.go:155-162: the header of a packet; fullness is 0x07FF.
AdtsHeader(type, sampleRateIndex, channelConfig, frameLen) ==
    LET l == AdtsHeaderLength(frameLen)
    IN << 255,
          241,
          ((type - 1) * 64 + sampleRateIndex * 4 + ((channelConfig \div 4) % 2)) % 256,
          ((channelConfig % 4) * 64 + l[1]) % 256,
          l[2],
          l[3] + 31,
          252 >>

\* adts.go:118-169: EncodeADTS, which returns the stream or an error.
EncodeResult(bytes, err) == [bytes |-> bytes, err |-> err]

EncodeADTS(pkts) ==
    LET sri(i) == IndexIn(sampleRates, pkts[i].SampleRate)
        cc(i) == LET c == IndexIn(channelCounts, pkts[i].ChannelCount)
                 IN IF c = -1 THEN -1 ELSE c + 1
        bad == {i \in 1..Len(pkts) : sri(i) = -1 \/ cc(i) = -1}
    IN IF bad # {}
       THEN LET i == CHOOSE j \in bad : \A k \in bad : j <= k
            IN EncodeResult(<<>>, IF sri(i) = -1 THEN ErrADTSencodeSampleRateInvalid
                                  ELSE ErrADTSencodeChannelCountInvalid)
       ELSE EncodeResult(
                ConcatRange([i \in 1..Len(pkts) |->
                                AdtsHeader(pkts[i].Type, sri(i), cc(i),
                                           Len(pkts[i].AU) + 7) \o pkts[i].AU],
                            1, Len(pkts)),
                Nil)

AdtsInit ==
    /\ adtsPc = "idle"
    /\ adtsPrefix = 0
    /\ adtsLast = ValidAdtsFrame(<<170>>)
    /\ adtsIn = <<>>
    /\ adtsRet = AdtsResult(<<>>, Nil)
    /\ adtsPkts = <<>>

\* A stream arrives: valid frames followed by one more frame.
Adts_Input ==
    /\ adtsPc = "idle"
    /\ \E n \in 0..MaxAdtsPrefix, last \in LastAdtsFrames :
        /\ adtsPrefix' = n
        /\ adtsLast' = last
        /\ adtsIn' = ConcatRange([i \in 1..n |-> AdtsFrameBytes(ValidAdtsFrame(<<170>>))],
                                 1, n) \o AdtsFrameBytes(last)
    /\ adtsRet' = AdtsResult(<<>>, Nil)
    /\ adtsPc' = "input"
    /\ UNCHANGED adtsPkts
    /\ UNCHANGED notAdtsVars

\* adts.go:118-169: packets are encoded into a stream.
Adts_Encode ==
    /\ adtsPc = "idle"
    /\ \E pkts \in AdtsPacketLists :
        /\ adtsPkts' = pkts
        /\ adtsIn' = EncodeADTS(pkts).bytes
    /\ adtsPc' = "encoded"
    /\ UNCHANGED <<adtsPrefix, adtsLast, adtsRet>>
    /\ UNCHANGED notAdtsVars

\* adts.go:31-110.
Adts_Decode ==
    /\ adtsPc \in {"input", "encoded"}
    /\ adtsRet' = DecodeADTS(adtsIn)
    /\ adtsPc' = IF adtsPc = "input" THEN "decoded" ELSE "roundtrip"
    /\ UNCHANGED <<adtsPrefix, adtsLast, adtsIn, adtsPkts>>
    /\ UNCHANGED notAdtsVars

\* The caller takes the result.
Adts_Done ==
    /\ adtsPc \in {"decoded", "roundtrip"}
    /\ adtsPc' = "idle"
    /\ adtsPrefix' = 0
    /\ adtsLast' = ValidAdtsFrame(<<170>>)
    /\ adtsIn' = <<>>
    /\ adtsRet' = AdtsResult(<<>>, Nil)
    /\ adtsPkts' = <<>>
    /\ UNCHANGED notAdtsVars

AdtsNext ==
    \/ Adts_Input
    \/ Adts_Encode
    \/ Adts_Decode
    \/ Adts_Done

----------------------------------------------------------------------------
(***************************************************************************)
(* Properties of DecodeADTS, checked under SpecAdts.                       *)
(***************************************************************************)

PassesEarlierChecks(f) ==
    /\ f.pa = 1
    /\ f.profile + 1 = MPEG4AudioTypeAACLC
    /\ f.sri <= 12
    /\ f.chan \in 1..7

C37_DecodeNeverPanics ==
    adtsPc \in {"decoded", "roundtrip"} => ~adtsRet.panicked

\* C40: for every list of packets of type AAC-LC with a supported sample
\* rate and channel count and access units of any length,
\* DecodeADTS(EncodeADTS(pkts)) returns, without error, packets equal to
\* pkts in the same order.
C40_AdtsRoundTrip ==
    adtsPc = "roundtrip" => adtsRet = AdtsResult(adtsPkts, Nil)

----------------------------------------------------------------------------
(***************************************************************************)
(* Polygon masks: CreateMask and vertexInsidePoly of                       *)
(* src/pkg/ffmpeg/ffmpeg.go.                                               *)
(***************************************************************************)

\* Largest width, height and polygon coordinate.
MaxDim == 4

Abs(a) == IF a < 0 THEN -a ELSE a

\* Division of Go integers: the quotient is truncated toward zero.
GoDiv(a, b) ==
    IF (a < 0) # (b < 0) THEN -(Abs(a) \div Abs(b)) ELSE Abs(a) \div Abs(b)

\* ffmpeg.go:337-352: the loop of vertexInsidePoly from index i (from 1
\* here), with j the index before and inside the value so far.
RECURSIVE vertexInsidePolyFrom(_, _, _, _, _, _)
vertexInsidePolyFrom(x, y, poly, i, j, inside) ==
    IF i > Len(poly) THEN inside
    ELSE LET xi == poly[i][1]
             yi == poly[i][2]
             xj == poly[j][1]
             yj == poly[j][2]
             crosses == /\ (yi > y) # (yj > y)
                        /\ x < GoDiv((xj - xi) * (y - yi), yj - yi) + xi
         IN vertexInsidePolyFrom(x, y, poly, i + 1, i,
                                 IF crosses THEN ~inside ELSE inside)

vertexInsidePoly(x, y, poly) ==
    vertexInsidePolyFrom(x, y, poly, 1, Len(poly), FALSE)

\* image.Rect(0, 0, w, h): the pixels of the image.
Rect(w, h) == (0..(w - 1)) \X (0..(h - 1))

\* The loops with the bounds exchanged: the first variable up to h, the
\* second up to w.
CreateMaskVisitsSwapped(w, h) == (0..(h - 1)) \X (0..(w - 1))

\* ffmpeg.go:308-309: the pairs the two loops visit: the variable of the
\* outer loop, named y, runs up to w and that of the inner loop, named x,
\* up to h.
CreateMaskVisits(w, h) == (0..(w - 1)) \X (0..(h - 1))

\* ffmpeg.go:303-318: CreateMask.  For a visited pair <<y, x>> the code
\* calls vertexInsidePoly(y, x, poly) and img.Set(y, x, ...), so the outer
\* variable is the horizontal coordinate; Set outside the image does
\* nothing and a pixel never set keeps alpha 0.
CreateMask(w, h, poly) ==
    [p \in Rect(w, h) |->
        IF p \in CreateMaskVisits(w, h) /\ vertexInsidePoly(p[1], p[2], poly)
        THEN 255 ELSE 0]

\* The pixels the loops of CreateMask set, inside the image or not.
CreateMaskSet(w, h) == CreateMaskVisits(w, h)

\* The polygons: none, a point, a segment, triangles, squares and a
\* concave polygon, with vertices in 0..MaxDim.
MaskPolygons ==
    { <<>>,
      <<<<1, 1>>>>,
      <<<<0, 0>>, <<MaxDim, MaxDim>>>>,
      <<<<0, 0>>, <<MaxDim, 0>>, <<0, MaxDim>>>>,
      <<<<0, 0>>, <<MaxDim, 0>>, <<MaxDim, MaxDim>>>>,
      <<<<1, 0>>, <<3, 2>>, <<0, 3>>>>,
      <<<<0, 0>>, <<2, 0>>, <<2, 2>>, <<0, 2>>>>,
      <<<<0, 0>>, <<MaxDim, 0>>, <<MaxDim, MaxDim>>, <<0, MaxDim>>>>,
      <<<<1, 1>>, <<3, 1>>, <<3, 2>>, <<1, 2>>>>,
      <<<<0, 0>>, <<MaxDim, 0>>, <<2, 1>>, <<MaxDim, MaxDim>>, <<0, MaxDim>>>> }

NoImage == [p \in {} |-> 0]

MaskInit ==
    /\ maskPc = "idle"
    /\ maskW = 1
    /\ maskH = 1
    /\ maskPoly = <<>>
    /\ maskImg = NoImage
    /\ maskSet = {}

\* generateMask calls CreateMask with a frame size and a polygon.
Mask_Call ==
    /\ maskPc = "idle"
    /\ \E w \in 1..MaxDim, h \in 1..MaxDim, poly \in MaskPolygons :
        /\ maskW' = w
        /\ maskH' = h
        /\ maskPoly' = poly
    /\ maskPc' = "called"
    /\ UNCHANGED <<maskImg, maskSet>>
    /\ UNCHANGED notMaskVars

\* ffmpeg.go:303-318.
Mask_Create ==
    /\ maskPc = "called"
    /\ maskImg' = CreateMask(maskW, maskH, maskPoly)
    /\ maskSet' = CreateMaskSet(maskW, maskH)
    /\ maskPc' = "created"
    /\ UNCHANGED <<maskW, maskH, maskPoly>>
    /\ UNCHANGED notMaskVars

\* The image is saved and the next mask is made.
Mask_Done ==
    /\ maskPc = "created"
    /\ maskPc' = "idle"
    /\ maskW' = 1
    /\ maskH' = 1
    /\ maskPoly' = <<>>
    /\ maskImg' = NoImage
    /\ maskSet' = {}
    /\ UNCHANGED notMaskVars

MaskNext ==
    \/ Mask_Call
    \/ Mask_Create
    \/ Mask_Done

----------------------------------------------------------------------------
(***************************************************************************)
(* Properties of CreateMask, checked under SpecMask.                       *)
(***************************************************************************)

\* C28: the mask has exactly the pixels of [0,w) x [0,h); pixel (x, y) is
\* opaque exactly when vertexInsidePoly(x, y, poly) holds; the loops set
\* every pixel of the image and none outside it.
C28_MaskIsInsideTest ==
    maskPc = "created" =>
        /\ DOMAIN maskImg = {<<x, y>> : x \in 0..(maskW - 1), y \in 0..(maskH - 1)}
        /\ \A x \in 0..(maskW - 1), y \in 0..(maskH - 1) :
            /\ maskImg[<<x, y>>] \in {0, 255}
            /\ maskImg[<<x, y>>] = 255 <=> vertexInsidePoly(x, y, maskPoly)
        /\ maskSet = DOMAIN maskImg

\* A mask wider than high with opaque and transparent pixels, the opaque
\* ones reaching beyond the square [0,h) x [0,h).
C28_Witness ==
    /\ maskPc = "created"
    /\ maskW > maskH
    /\ \E p \in DOMAIN maskImg : maskImg[p] = 0
    /\ \E p \in DOMAIN maskImg : maskImg[p] = 255 /\ p[1] >= maskH

----------------------------------------------------------------------------
(***************************************************************************)
(* The detector output parser: parser.parseLine and parseSegment of        *)
(* src/addons/motion/backend.go.  A line is represented by what the        *)
(* parser looks at: whether it ends with " id=N", whether it contains      *)
(* "lavfi.scene_score", and the number "D.DDDDDD" that follows             *)
(* "lavfi.scene_score=", in millionths.  A segment is the sequence of the  *)
(* lines joined by "\n".                                                   *)
(***************************************************************************)

\* Lines fed to one parser.
MaxLines == 4

\* The lines: "frame:35 pts:39 ...", "id=N", "lavfi.scene_score=F",
\* "lavfi.scene_score=" without a number, any other line, the empty line.
FrameLine == [kind |-> "frame", id |-> -1, score |-> -1]
IdLine(n) == [kind |-> "id", id |-> n, score |-> -1]
ScoreLine(f) == [kind |-> "score", id |-> -1, score |-> f]
BadScoreLine == [kind |-> "score", id |-> -1, score |-> -1]
OtherLine == [kind |-> "other", id |-> -1, score |-> -1]
EmptyLine == [kind |-> "empty", id |-> -1, score |-> -1]

StderrLines ==
    {FrameLine, IdLine(0), IdLine(1), ScoreLine(0), ScoreLine(50000),
     BadScoreLine, OtherLine}

\* What parseLine returns.
ParseRet(id, score) == [id |-> id, score |-> score]

\* backend.go:366-390: parseSegment.  The regular expression
\* \bid=(\d+)\b\n.*lavfi.scene_score=(\d.\d+) matches at the first line
\* that ends with id=N and is followed by a line with a score; the result
\* is the id and the score times 100.
parseSegment(segment) ==
    LET matches == {i \in 1..(Len(segment) - 1) :
                        segment[i].kind = "id" /\ segment[i + 1].score >= 0}
    IN IF matches = {} THEN ParseRet(0, 0)
       ELSE LET i == CHOOSE m \in matches : \A k \in matches : m <= k
            IN ParseRet(segment[i].id, parseScore(segment[i + 1].score))

\* The segment is kept after its end.
SegmentKept(segment, line) == segment

\* backend.go:359: *p.segment = line.
SegmentAfterEnd(segment, line) == <<line>>

\* backend.go:354-355: *p.segment += "\n" + line; endOfSegment.
SegmentWith(segment, line) == Append(segment, line)
EndOfSegment(line) == line.kind = "score"

\* backend.go:343-349: newParser: the segment is "".
NewSegment == <<EmptyLine>>

PsInit ==
    /\ psSegment = NewSegment
    /\ psLines = <<>>
    /\ psRets = <<>>

\* backend.go:353-364: parseLine(line), called by parseFFmpegOutput for
\* each line of stderr.
Ps_ParseLine ==
    /\ Len(psLines) < MaxLines
    /\ \E line \in StderrLines :
        LET s == SegmentWith(psSegment, line)
        IN /\ psLines' = Append(psLines, line)
           /\ IF EndOfSegment(line)
              THEN /\ psSegment' = SegmentAfterEnd(s, line)
                   /\ psRets' = Append(psRets, parseSegment(s))
              ELSE /\ psSegment' = s
                   /\ psRets' = Append(psRets, ParseRet(0, 0))
    /\ UNCHANGED notPsVars

\* backend.go:280-282: the detector ended; parseFFmpegOutput of the next
\* detector process makes a new parser.
Ps_NewParser ==
    /\ psLines # <<>>
    /\ psSegment' = NewSegment
    /\ psLines' = <<>>
    /\ psRets' = <<>>
    /\ UNCHANGED notPsVars

PsNext ==
    \/ Ps_ParseLine
    \/ Ps_NewParser

----------------------------------------------------------------------------
(***************************************************************************)
(* Properties of the parser, checked under SpecPs.                         *)
(***************************************************************************)

\* Line n ends a complete block: frame line, id line, score line.
CompleteBlockAt(n) ==
    /\ n >= 3
    /\ psLines[n].kind = "score" /\ psLines[n].score >= 0
    /\ psLines[n - 1].kind = "id"
    /\ psLines[n - 2].kind = "frame"

\* Line n is a score line that follows an id line.
IdScorePairAt(n) ==
    /\ n >= 2
    /\ psLines[n].kind = "score" /\ psLines[n].score >= 0
    /\ psLines[n - 1].kind = "id"

\* C30 as stated: parseLine returns the id and the score times 100 of a
\* block on the score line of every complete block frame / id / score, and
\* (0, 0) on every other line.
C30_OncePerCompleteBlock ==
    /\ Len(psRets) = Len(psLines)
    /\ \A n \in 1..Len(psLines) :
        psRets[n] = IF CompleteBlockAt(n)
                    THEN ParseRet(psLines[n - 1].id, psLines[n].score * 100)
                    ELSE ParseRet(0, 0)

\* C30, amended: parseLine returns the id and the score times 100 on every
\* score line that follows an id line, whether a frame line comes before
\* the two or not, and (0, 0) on every other line; the lines before the
\* pair do not change the result.
C30_OncePerIdScorePair ==
    /\ Len(psRets) = Len(psLines)
    /\ \A n \in 1..Len(psLines) :
        psRets[n] = IF IdScorePairAt(n)
                    THEN ParseRet(psLines[n - 1].id, psLines[n].score * 100)
                    ELSE ParseRet(0, 0)

\* A block of zone 0 and then an id line and a score line of zone 1: the
\* second result is that of zone 1.
C30_Witness ==
    /\ Len(psLines) = 4
    /\ psLines[1] = IdLine(0)
    /\ psLines[2] = ScoreLine(50000)
    /\ psLines[3] = IdLine(1)
    /\ psLines[4] = ScoreLine(50000)
    /\ psRets[2] = ParseRet(0, 5000000)
    /\ psRets[4] = ParseRet(1, 5000000)

----------------------------------------------------------------------------
(***************************************************************************)
(* Delivery of triggers: detectorProcess, parseFFmpegOutput and            *)
(* sendTrigger of src/addons/motion/backend.go.  Each detector process has *)
(* its own parser goroutine, started at backend.go:270; the recorder that  *)
(* receives from the channel m.Trigger is outside the modelled sources and *)
(* takes one event at a time.                                              *)
(***************************************************************************)

\* Detector processes started, and score lines above the threshold.
MaxDetectors == 2
MaxTriggers == 3

Detectors == 1..MaxDetectors

TrigInit ==
    /\ trigStarted = 0
    /\ trigRunning = FALSE
    /\ trigParser = [g \in Detectors |-> "none"]
    /\ trigPending = [g \in Detectors |-> 0]
    /\ trigParsed = <<>>
    /\ trigReceived = <<>>
    /\ trigLoop = "running"

\* backend.go:249-272: detectorProcess, called by the loop of
\* startDetector when no detector process runs: go a.parseFFmpegOutput
\* (stderr) and process.Start.
Trig_StartProcess ==
    /\ trigLoop = "running"
    /\ ~trigRunning
    /\ trigStarted < MaxDetectors
    /\ trigStarted' = trigStarted + 1
    /\ trigRunning' = TRUE
    /\ trigParser' = [trigParser EXCEPT ![trigStarted + 1] = "scan"]
    /\ UNCHANGED <<trigPending, trigParsed, trigReceived, trigLoop>>
    /\ UNCHANGED notTrigVars

\* backend.go:283-294: the parser of detector g reads a score line above
\* the threshold of its zone and calls sendTrigger.  The trigger is named
\* by its position in the order of parsing.
Trig_Parse(g) ==
    /\ trigParser[g] = "scan"
    /\ trigStarted = g /\ trigRunning
    /\ Len(trigParsed) < MaxTriggers
    /\ trigParsed' = Append(trigParsed, Len(trigParsed) + 1)
    /\ trigPending' = [trigPending EXCEPT ![g] = Len(trigParsed) + 1]
    /\ trigParser' = [trigParser EXCEPT ![g] = "send"]
    /\ UNCHANGED <<trigStarted, trigRunning, trigReceived, trigLoop>>
    /\ UNCHANGED notTrigVars

\* The parser goroutines blocked in the send of backend.go:304.
Senders == {g \in Detectors : trigParser[g] = "send"}

\* backend.go:304-306: a.m.Trigger <- monitor.Event{...}: the recorder
\* receives from one of the goroutines blocked in the send.
MaySend(g) == g \in Senders

Trig_Send(g) ==
    /\ MaySend(g)
    /\ trigReceived' = Append(trigReceived, trigPending[g])
    /\ trigPending' = [trigPending EXCEPT ![g] = 0]
    /\ trigParser' = [trigParser EXCEPT ![g] = "scan"]
    /\ UNCHANGED <<trigStarted, trigRunning, trigParsed, trigLoop>>
    /\ UNCHANGED notTrigVars

\* backend.go:272-277: the detector process ends and process.Start
\* returns; its parser goroutine keeps running.
Trig_ProcExit ==
    /\ trigRunning
    /\ trigRunning' = FALSE
    /\ UNCHANGED <<trigStarted, trigParser, trigPending, trigParsed, trigReceived, trigLoop>>
    /\ UNCHANGED notTrigVars

\* backend.go:283: output.Scan() returns false at the end of the stderr of
\* an ended process and parseFFmpegOutput returns.
Trig_ParserEnd(g) ==
    /\ trigParser[g] = "scan"
    /\ ~(trigStarted = g /\ trigRunning)
    /\ trigParser' = [trigParser EXCEPT ![g] = "done"]
    /\ UNCHANGED <<trigStarted, trigRunning, trigPending, trigParsed, trigReceived, trigLoop>>
    /\ UNCHANGED notTrigVars

\* backend.go:236-240: between two detector processes the loop of
\* startDetector finds a.ctx cancelled, calls a.m.WG.Done() and returns.
Trig_LoopDone ==
    /\ trigLoop = "running"
    /\ ~trigRunning
    /\ trigLoop' = "done"
    /\ UNCHANGED <<trigStarted, trigRunning, trigParser, trigPending, trigParsed,
                   trigReceived>>
    /\ UNCHANGED notTrigVars

TrigNext ==
    \/ Trig_StartProcess
    \/ \E g \in Detectors : Trig_Parse(g)
    \/ \E g \in Detectors : Trig_Send(g)
    \/ Trig_ProcExit
    \/ \E g \in Detectors : Trig_ParserEnd(g)
    \/ Trig_LoopDone

----------------------------------------------------------------------------
(***************************************************************************)
(* Properties of the delivery of triggers, checked under SpecTrig.         *)
(***************************************************************************)

\* C29: the recorder receives the triggers in the order in which they were
\* parsed, each at most once, also when the detector was restarted in
\* between.
C29_ReceivedInParseOrder ==
    /\ \A i, j \in 1..Len(trigReceived) :
        i < j => trigReceived[i] < trigReceived[j]
    /\ \A i \in 1..Len(trigReceived) :
        trigReceived[i] \in 1..Len(trigParsed)

\* C33: once the loop of startDetector has called WG.Done, the parser
\* goroutine of every detector process it started has finished: none is
\* in, or can still reach, the send on the monitor's trigger channel.
C33_ParsersDoneAtWgDone ==
    trigLoop = "done" =>
        \A g \in Detectors : trigParser[g] \in {"none", "done"}

----------------------------------------------------------------------------
(***************************************************************************)
(* Life of the subscriber channels of the log bus: Logger.Start, Subscribe *)
(* and unSubscribe of src/pkg/video/rtsp/gortsplib/pkg/base/header.go      *)
(* (lines 240-286), with a cancel function that may be called several      *)
(* times.  The records are not told apart here; what is recorded is every  *)
(* close(ch) the dispatcher executes and every send on a closed channel.   *)
(***************************************************************************)

\* Calls of one subscription's cancel function, and records emitted.
MaxCancels == 2
MaxEmits == 1

CancelCalls == 1..MaxCancels

BusInit ==
    /\ busPc = "select"
    /\ busSubs = {}
    /\ busTodo = {}
    /\ busCur = 0
    /\ busEmits = 0
    /\ busSubPc = [s \in Subscribers |-> "new"]
    /\ busCancelPc = [s \in Subscribers |-> [c \in CancelCalls |-> "idle"]]
    /\ busCloseCalls = [s \in Subscribers |-> 0]
    /\ busSentClosed = {}

\* header.go:267-269: Subscribe makes its channel and reaches l.sub <- feed.
Bus_SubscribeCall(s) ==
    /\ busSubPc[s] = "new"
    /\ busSubPc' = [busSubPc EXCEPT ![s] = "subscribing"]
    /\ UNCHANGED <<busPc, busSubs, busTodo, busCur, busEmits, busCancelPc,
                   busCloseCalls, busSentClosed>>
    /\ UNCHANGED notBusVars

\* header.go:248-249: case ch := <-l.sub: subs[ch] = struct{}{}.
Bus_Sub(s) ==
    /\ busPc = "select"
    /\ busSubPc[s] = "subscribing"
    /\ busSubs' = busSubs \cup {s}
    /\ busSubPc' = [busSubPc EXCEPT ![s] = "subscribed"]
    /\ UNCHANGED <<busPc, busTodo, busCur, busEmits, busCancelPc,
                   busCloseCalls, busSentClosed>>
    /\ UNCHANGED notBusVars

\* header.go:255: case msg := <-l.feed, a record emitted by a producer.
Bus_Feed ==
    /\ busPc = "select"
    /\ busEmits < MaxEmits
    /\ busEmits' = busEmits + 1
    /\ busTodo' = busSubs
    /\ busPc' = "range"
    /\ UNCHANGED <<busSubs, busCur, busSubPc, busCancelPc, busCloseCalls,
                   busSentClosed>>
    /\ UNCHANGED notBusVars

\* header.go:256: for ch := range subs takes the next channel or ends.
Bus_Range ==
    /\ busPc = "range"
    /\ \/ /\ busTodo = {}
          /\ busPc' = "select"
          /\ UNCHANGED <<busTodo, busCur>>
       \/ \E s \in busTodo :
             /\ busCur' = s
             /\ busTodo' = busTodo \ {s}
             /\ busPc' = "send"
    /\ UNCHANGED <<busSubs, busEmits, busSubPc, busCancelPc, busCloseCalls,
                   busSentClosed>>
    /\ UNCHANGED notBusVars

\* The subscriber reads its channel until it calls its cancel function.
BusReading(s) ==
    /\ busSubPc[s] = "subscribed"
    /\ \A c \in CancelCalls : busCancelPc[s][c] = "idle"

\* A call of cancel is in the select of unSubscribe (header.go:280-284).
BusUnsubscribing(s) == \E c \in CancelCalls : busCancelPc[s][c] = "unsub"

\* header.go:257: ch <- msg, received by the subscriber or by case <-feed
\* of unSubscribe (header.go:283).  A send on a closed channel is recorded.
Bus_Send(s) ==
    /\ busPc = "send"
    /\ busCur = s
    /\ BusReading(s) \/ BusUnsubscribing(s)
    /\ busSentClosed' = IF busCloseCalls[s] > 0 THEN busSentClosed \cup {s}
                        ELSE busSentClosed
    /\ busPc' = "range"
    /\ busCur' = 0
    /\ UNCHANGED <<busSubs, busTodo, busEmits, busSubPc, busCancelPc,
                   busCloseCalls>>
    /\ UNCHANGED notBusVars

\* header.go:271-273: the cancel function is called, for the c-th time,
\* and enters unSubscribe.  Nothing in it tells a first call from a later.
Bus_CancelCall(s, c) ==
    /\ busSubPc[s] = "subscribed"
    /\ busCancelPc[s][c] = "idle"
    /\ \A b \in 1..(c - 1) : busCancelPc[s][b] # "idle"
    /\ busCancelPc' = [busCancelPc EXCEPT ![s][c] = "unsub"]
    /\ UNCHANGED <<busPc, busSubs, busTodo, busCur, busEmits, busSubPc,
                   busCloseCalls, busSentClosed>>
    /\ UNCHANGED notBusVars

\* header.go:251-253: close(ch); delete(subs, ch).  close of a channel
\* that is already closed panics.
UnsubClose(s) == IF busCloseCalls[s] > 0 THEN "panicked" ELSE "select"

\* header.go:281-282 with 251-253: l.unsub <- feed is received by
\* case ch := <-l.unsub; unSubscribe returns.
Bus_Unsub(s, c) ==
    /\ busPc = "select"
    /\ busCancelPc[s][c] = "unsub"
    /\ busCloseCalls' = [busCloseCalls EXCEPT ![s] = @ + 1]
    /\ busPc' = UnsubClose(s)
    /\ busSubs' = IF UnsubClose(s) = "panicked" THEN busSubs ELSE busSubs \ {s}
    /\ busCancelPc' = [busCancelPc EXCEPT ![s][c] = "returned"]
    /\ UNCHANGED <<busTodo, busCur, busEmits, busSubPc, busSentClosed>>
    /\ UNCHANGED notBusVars

BusNext ==
    \/ Bus_Feed
    \/ Bus_Range
    \/ \E s \in Subscribers : Bus_SubscribeCall(s)
    \/ \E s \in Subscribers : Bus_Sub(s)
    \/ \E s \in Subscribers : Bus_Send(s)
    \/ \E s \in Subscribers, c \in CancelCalls : Bus_CancelCall(s, c)
    \/ \E s \in Subscribers, c \in CancelCalls : Bus_Unsub(s, c)

\* C34: in every interleaving of emit, Subscribe and cancel calls, a cancel
\* function called more than once included, the dispatcher executes
\* close(ch) at most once for each subscriber channel (and never panics on
\* a close), exactly once for a channel whose cancel has returned, and
\* never sends a record on a channel it has closed.
C34_ClosedExactlyOnce ==
    /\ busPc # "panicked"
    /\ \A s \in Subscribers :
        /\ busCloseCalls[s] <= 1
        /\ (\E c \in CancelCalls : busCancelPc[s][c] = "returned")
              => busCloseCalls[s] = 1
    /\ busSentClosed = {}

----------------------------------------------------------------------------
(***************************************************************************)
(* The MinIO client shared by the recording-saved hooks:                   *)
(* MinioClient, onRecSaved and ConnectMinio of                             *)
(* src/addons/minio/backend.go.  The recorders that call the hook are      *)
(* outside the modelled sources; each recording is saved by the goroutine  *)
(* of its monitor, so the hook runs concurrently.  MinioClient is a        *)
(* package variable read and written without synchronization: a read that  *)
(* races with a write sees the new pointer or still nil.                   *)
(***************************************************************************)

\* Hook invocations that may overlap.
MaxHooks == 3

Hooks == 1..MaxHooks

\* The nil *minio.Client; the client made by the n-th ConnectMinio is n.
NilClient == 0

ConnInit ==
    /\ connPc = [h \in Hooks |-> "idle"]
    /\ MinioClient = NilClient
    /\ connCount = 0
    /\ connUsed = [h \in Hooks |-> NilClient]

\* backend.go:79-89: a recorder calls onRecSaved.
Conn_Call(h) ==
    /\ connPc[h] = "idle"
    /\ connPc' = [connPc EXCEPT ![h] = "check"]
    /\ UNCHANGED <<MinioClient, connCount, connUsed>>
    /\ UNCHANGED notConnVars

\* The values an unsynchronized read of MinioClient can return.
ClientSeen == {MinioClient, NilClient}

\* backend.go:91: if MinioClient == nil.
Conn_Check(h) ==
    /\ connPc[h] = "check"
    /\ \E seen \in ClientSeen :
          connPc' = [connPc EXCEPT ![h] = IF seen = NilClient THEN "connect"
                                          ELSE "upload"]
    /\ UNCHANGED <<MinioClient, connCount, connUsed>>
    /\ UNCHANGED notConnVars

\* backend.go:92 and 144-171: MinioClient = ConnectMinio(): a new client,
\* MakeBucket and SetBucketPolicy.
Conn_Connect(h) ==
    /\ connPc[h] = "connect"
    /\ connCount' = connCount + 1
    /\ MinioClient' = connCount + 1
    /\ connPc' = [connPc EXCEPT ![h] = "upload"]
    /\ UNCHANGED connUsed
    /\ UNCHANGED notConnVars

\* backend.go:115-122: MinioClient.FPutObject(...), through a pointer the
\* hook has seen set: the client this goroutine made or a later one.
Conn_Upload(h) ==
    /\ connPc[h] = "upload"
    /\ connUsed' = [connUsed EXCEPT ![h] = MinioClient]
    /\ connPc' = [connPc EXCEPT ![h] = "done"]
    /\ UNCHANGED <<MinioClient, connCount>>
    /\ UNCHANGED notConnVars

ConnNext ==
    \/ \E h \in Hooks : Conn_Call(h)
    \/ \E h \in Hooks : Conn_Check(h)
    \/ \E h \in Hooks : Conn_Connect(h)
    \/ \E h \in Hooks : Conn_Upload(h)

\* C36: ConnectMinio is executed at most once per process, and all hook
\* invocations upload through the same client.
C36_ConnectedOnce ==
    /\ connCount <= 1
    /\ \A h1, h2 \in Hooks :
        (connPc[h1] = "done" /\ connPc[h2] = "done") => connUsed[h1] = connUsed[h2]

----------------------------------------------------------------------------
(***************************************************************************)
(* Indexing of the zone list by the parsed id: onMonitorStart,             *)
(* generateDetectorArgs and parseFFmpegOutput of                           *)
(* src/addons/motion/backend.go.  The detector subprocess prints, besides  *)
(* other lines, the id lines of the filter outputs it was started with,    *)
(* one output for each mask.                                               *)
(***************************************************************************)

\* The zone lists, told apart by which zones are enabled; the empty list.
IdxZoneLists ==
    {<<>>} \cup {zs \in ZoneLists : \A i \in 1..Len(zs) : zs[i].Threshold = 0}

\* The lines a detector started with the masks ms can print.
IdxLines(ms) ==
    {FrameLine, OtherLine, BadScoreLine, ScoreLine(0), ScoreLine(50000)}
    \cup {IdLine(OutputId(ms, out)) : out \in 0..(Len(ms) - 1)}

IdxInit ==
    /\ idxPc = "new"
    /\ idxZones = <<>>
    /\ idxMasks = <<>>
    /\ idxSegment = NewSegment
    /\ idxCount = 0
    /\ idxUsed = {}

\* backend.go:72-92: a.zones is unmarshalled, the masks are generated and
\* the detector is started with one filter output for each mask.
Idx_Start ==
    /\ idxPc = "new"
    /\ \E zs \in IdxZoneLists :
        /\ idxZones' = zs
        /\ idxMasks' = generateMasks(zs)
    /\ idxPc' = "scan"
    /\ UNCHANGED <<idxSegment, idxCount, idxUsed>>
    /\ UNCHANGED notIdxVars

\* backend.go:283-295: a line is scanned and parsed; a result with score 0
\* is skipped; otherwise a.zones[id] is indexed, which panics when id is
\* not an index of a.zones.
Idx_Line ==
    /\ idxPc = "scan"
    /\ idxCount < MaxLines
    /\ idxCount' = idxCount + 1
    /\ \E line \in IdxLines(idxMasks) :
        LET s == SegmentWith(idxSegment, line)
            ret == IF EndOfSegment(line) THEN parseSegment(s) ELSE ParseRet(0, 0)
        IN /\ idxSegment' = IF EndOfSegment(line) THEN SegmentAfterEnd(s, line) ELSE s
           /\ IF ret.score = 0
              THEN UNCHANGED <<idxPc, idxUsed>>
              ELSE IF ret.id \in 0..(Len(idxZones) - 1)
              THEN /\ idxUsed' = idxUsed \cup {ret.id}
                   /\ UNCHANGED idxPc
              ELSE /\ idxPc' = "panicked"
                   /\ UNCHANGED idxUsed
    /\ UNCHANGED <<idxZones, idxMasks>>
    /\ UNCHANGED notIdxVars

\* backend.go:283: the detector ends and the scan loop with it; the
\* monitor is started again.
Idx_End ==
    /\ idxPc = "scan"
    /\ idxCount > 0
    /\ idxPc' = "new"
    /\ idxZones' = <<>>
    /\ idxMasks' = <<>>
    /\ idxSegment' = NewSegment
    /\ idxCount' = 0
    /\ idxUsed' = {}
    /\ UNCHANGED notIdxVars

IdxNext ==
    \/ Idx_Start
    \/ Idx_Line
    \/ Idx_End

\* C38: the id that parseFFmpegOutput uses in a.zones[id] is an index of
\* a.zones, for every sequence of lines the detector prints, so that the
\* parsing goroutine never panics on the index.
C38_ZoneIndexInRange ==
    /\ idxPc # "panicked"
    /\ \A id \in idxUsed : 0 <= id /\ id < Len(idxZones)

\* Both zones of a list of two were indexed, the second at the last index.
C38_Witness ==
    /\ Len(idxZones) = 2
    /\ idxUsed = {0, 1}

----------------------------------------------------------------------------
(***************************************************************************)
(* Specifications.  Each one runs one subsystem and leaves the variables   *)
(* of the others in their initial state.                                   *)
(***************************************************************************)
Init == ProcInit /\ LogInit /\ RunInit /\ DetInit /\ ZoneInit /\ KfInit
        /\ HookInit
        /\ AppInit
        /\ MsInit
        /\ HdrInit
        /\ RifInit
        /\ AdtsInit
        /\ MaskInit
        /\ PsInit
        /\ TrigInit
        /\ BusInit
        /\ ConnInit
        /\ IdxInit

SpecProc == Init /\ [][ProcNext]_vars /\ ProcFairness

SpecLog == Init /\ [][LogNext]_vars /\ LogFairness

SpecRun == Init /\ [][RunNext]_vars /\ RunFairness

SpecDet == Init /\ [][DetNext]_vars /\ DetFairness

SpecZone == Init /\ [][ZoneNext]_vars

SpecKf == Init /\ [][KfNext]_vars /\ KfFairness

SpecHook == Init /\ [][HookNext]_vars

SpecApp == Init /\ [][AppNext]_vars

SpecMs == Init /\ [][MsNext]_vars

SpecHdr == Init /\ [][HdrNext]_vars

SpecRif == Init /\ [][RifNext]_vars

SpecAdts == Init /\ [][AdtsNext]_vars

SpecMask == Init /\ [][MaskNext]_vars

SpecPs == Init /\ [][PsNext]_vars

SpecTrig == Init /\ [][TrigNext]_vars

SpecBus == Init /\ [][BusNext]_vars

SpecConn == Init /\ [][ConnNext]_vars

SpecIdx == Init /\ [][IdxNext]_vars

Next ==
    \/ ProcNext
    \/ LogNext
    \/ RunNext
    \/ DetNext
    \/ ZoneNext
    \/ KfNext
    \/ HookNext
    \/ AppNext
    \/ MsNext
    \/ HdrNext
    \/ RifNext
    \/ AdtsNext
    \/ MaskNext
    \/ PsNext
    \/ TrigNext
    \/ BusNext
    \/ ConnNext
    \/ IdxNext

Spec == Init /\ [][Next]_vars
====
